---- MODULE Spec2Model ----
(***************************************************************************)
(* Model of the video indexing engine's segment pipeline                   *)
(* (src/core/segment_processor.py, src/core/data_models.py and the metric  *)
(* classes under src/metrics/).                                            *)
(*                                                                         *)
(* Numbers.  The program computes with floats.  The model is exact:        *)
(*   - a per-frame value is an integer number of hundredths (0.75 is 75,   *)
(*     a confidence of 60.0 is 6000, a mean saturation of 128.0 is 12800); *)
(*   - a field of ScoreMetrics is a rational [num, den], also counted in   *)
(*     hundredths, so that np.mean is the exact quotient sum / length.     *)
(***************************************************************************)
EXTENDS Integers, Sequences, FiniteSets, TLC

VARIABLES
    pc,                  \* where process_segment is: "loop" (lines 68-158), "done"
    n_frames,            \* len(frames)
    i,                   \* index of the frame the loop visits next
    prev_frame,          \* the retained previous frame, or NoFrame
    sharpness_scores, brightness_scores, contrast_scores, color_scores,
    motion_scores, composition_scores, person_scores, center_focus_scores,
    camera_movements, stabilization_data, focus_data, lighting_data,
    color_grading_data, exposure_data, framing_data,
    metrics,             \* the ScoreMetrics being filled
    calls,               \* log of the calls made to the MetricsManager
    seg_a, seg_b, overlap_result,     \* overlaps_with: operands, <<value returned>>
    mv_in, mv_out,                    \* _classify_movement: arguments, result
    cl_frame, cl_out,                 \* a single-frame classifier: the frame, its results
    rd_video, rd_duration,            \* iterate_segments: the video, segment_duration
    rd_start, rd_yielded, rd_pc,      \*   the loop's start_frame, what was yielded
    ix_entry, ix_duration, ix_videos, \* an indexing run: how it was started, its inputs
    ix_idx, ix_opened, ix_metadata,   \*   index_folder's loop and video_metadata
    ix_segments, ix_file, ix_pc       \*   all_segments, the file written, position

score_lists == <<sharpness_scores, brightness_scores, contrast_scores, color_scores,
                 motion_scores, composition_scores, person_scores, center_focus_scores>>

cinematic_lists == <<camera_movements, stabilization_data, focus_data, lighting_data,
                     color_grading_data, exposure_data, framing_data>>

segment_vars == <<pc, n_frames, i, prev_frame, score_lists, cinematic_lists, metrics, calls>>

overlap_vars == <<seg_a, seg_b, overlap_result>>

movement_vars == <<mv_in, mv_out>>

classify_vars == <<cl_frame, cl_out>>

reader_vars == <<rd_video, rd_duration, rd_start, rd_yielded, rd_pc>>

indexer_vars == <<ix_entry, ix_duration, ix_videos, ix_idx, ix_opened, ix_metadata,
                  ix_segments, ix_file, ix_pc>>

aux_vars == <<classify_vars, reader_vars, indexer_vars>>

vars == <<segment_vars, overlap_vars, movement_vars, aux_vars>>

(***************************************************************************)
(* Arithmetic helpers                                                      *)
(***************************************************************************)
Abs(x) == IF x < 0 THEN -x ELSE x

Min(a, b) == IF a <= b THEN a ELSE b

Max(a, b) == IF a >= b THEN a ELSE b

Range(xs) == {xs[k] : k \in DOMAIN xs}

RECURSIVE SeqSum(_)
SeqSum(xs) == IF xs = <<>> THEN 0 ELSE xs[1] + SeqSum(Tail(xs))

\* A rational number of hundredths.
Rat(num, den) == [num |-> num, den |-> den]

\* r / k for a positive integer k
RatDiv(r, k) == [num |-> r.num, den |-> r.den * k]

\* np.mean of a non-empty list
MeanOffByOne(xs) == Rat(SeqSum(xs), Len(xs) + 1)

Mean(xs) == Rat(SeqSum(xs), Len(xs))

\* xs.count(x)
Count(xs, x) == Cardinality({k \in DOMAIN xs : xs[k] = x})

\* [d[key] for d in data]
Column(data, key) == [k \in DOMAIN data |-> data[k][key]]

\* max(set(xs), key=xs.count): max() returns the first element of maximal count
\* in the iteration order of set(xs).  That order follows the hashes of the
\* labels (strings, salted per process), so it is any order: the result is any
\* label of maximal count.
ModeFirstSeen(xs) == {xs[1]}

ModeOf(xs) == {x \in Range(xs) : \A y \in Range(xs) : Count(xs, x) >= Count(xs, y)}

\* the results max(set(xs), key=xs.count) can give; "" stands for "not called"
Picks(xs) == IF xs = <<>> THEN {""} ELSE ModeOf(xs)

\* any(d[key] for d in data)
AnyLast(data, key) == data # <<>> /\ data[Len(data)][key]

AnyOf(data, key) == \E k \in DOMAIN data : data[k][key]

\* all(d[key] for d in data)
AllFirst(data, key) == data = <<>> \/ data[1][key]

\* all() taken for any()
AllAsAny(data, key) == \E k \in DOMAIN data : data[k][key]

AllOf(data, key) == \A k \in DOMAIN data : data[k][key]

(***************************************************************************)
(* ScoreMetrics (data_models.py): the schema defaults                      *)
(***************************************************************************)
ScoreMetrics ==
    [sharpness |-> Rat(0, 1), brightness |-> Rat(0, 1), contrast |-> Rat(0, 1),
     color_vibrancy |-> Rat(0, 1), motion_score |-> Rat(0, 1),
     composition_score |-> Rat(0, 1), person_score |-> Rat(0, 1),
     center_focus_score |-> Rat(0, 1),
     camera_movement_type |-> "Static", camera_movement_quality |-> Rat(0, 1),
     camera_movement_smoothness |-> Rat(0, 1), camera_movement_confidence |-> Rat(0, 1),
     stabilization_type |-> "unknown", stabilization_score |-> Rat(0, 1),
     focus_has_change |-> FALSE, focus_change_amount |-> Rat(0, 1),
     focus_sharpness |-> Rat(0, 1), focus_has_bokeh |-> FALSE,
     lighting_type |-> "natural", lighting_quality |-> Rat(0, 1),
     lighting_is_dramatic |-> FALSE,
     color_grading_style |-> "neutral", color_grading_strength |-> Rat(0, 1),
     color_saturation |-> Rat(0, 1), color_warmth |-> Rat(0, 1),
     exposure_quality |-> "properly_exposed", exposure_score |-> Rat(0, 1),
     exposure_is_well_exposed |-> TRUE,
     shot_framing_type |-> "medium", shot_composition_score |-> Rat(0, 1),
     shot_follows_rule_of_thirds |-> FALSE]

\* the numeric fields of ScoreMetrics
NumericFields ==
    {"sharpness", "brightness", "contrast", "color_vibrancy", "motion_score",
     "composition_score", "person_score", "center_focus_score",
     "camera_movement_quality", "camera_movement_smoothness",
     "camera_movement_confidence", "stabilization_score", "focus_change_amount",
     "focus_sharpness", "lighting_quality", "color_grading_strength",
     "color_saturation", "color_warmth", "exposure_score", "shot_composition_score"}

(***************************************************************************)
(* The aggregators of SegmentProcessor.  `pick` is the label that          *)
(* max(set(labels), key=labels.count) returned.                            *)
(***************************************************************************)
_aggregate_camera_movement(m, data, pick) ==
    IF data = <<>> THEN m
    ELSE [m EXCEPT
            !.camera_movement_type = pick,
            !.camera_movement_quality = RatDiv(Mean(Column(data, "cinematic_quality")), 100),
            !.camera_movement_smoothness = RatDiv(Mean(Column(data, "smoothness")), 100),
            !.camera_movement_confidence = RatDiv(Mean(Column(data, "confidence")), 100)]

_aggregate_stabilization(m, data, pick) ==
    IF data = <<>> THEN m
    ELSE [m EXCEPT
            !.stabilization_type = pick,
            !.stabilization_score = Mean(Column(data, "stabilization_score"))]

_aggregate_focus(m, data) ==
    IF data = <<>> THEN m
    ELSE [m EXCEPT
            !.focus_has_change = AnyOf(data, "has_focus_change"),
            !.focus_change_amount = Mean(Column(data, "focus_change_amount")),
            !.focus_sharpness = Mean(Column(data, "current_sharpness")),
            !.focus_has_bokeh = AnyOf(data, "has_shallow_dof")]

_aggregate_lighting(m, data, pick) ==
    IF data = <<>> THEN m
    ELSE [m EXCEPT
            !.lighting_type = pick,
            !.lighting_quality = Mean(Column(data, "quality_score")),
            !.lighting_is_dramatic = AnyOf(data, "is_dramatic")]

_aggregate_color_grading(m, data, pick) ==
    IF data = <<>> THEN m
    ELSE [m EXCEPT
            !.color_grading_style = pick,
            !.color_grading_strength = Mean(Column(data, "grading_strength")),
            !.color_saturation = Mean(Column(data, "saturation_level")),
            !.color_warmth = Mean(Column(data, "warmth_level"))]

_aggregate_exposure(m, data, pick) ==
    IF data = <<>> THEN m
    ELSE [m EXCEPT
            !.exposure_quality = pick,
            !.exposure_score = Mean(Column(data, "exposure_quality")),
            !.exposure_is_well_exposed = AllOf(data, "is_well_exposed")]

_aggregate_framing(m, data, pick) ==
    IF data = <<>> THEN m
    ELSE [m EXCEPT
            !.shot_framing_type = pick,
            !.shot_composition_score = Mean(Column(data, "composition_score")),
            !.shot_follows_rule_of_thirds = AnyOf(data, "follows_rule_of_thirds")]

\* np.mean(scores) if scores else default
\* the variant whose default is 0.0 for every score
MeanOrZero(scores, default) == IF scores # <<>> THEN Mean(scores) ELSE Rat(0, 1)

MeanOr(scores, default) == IF scores # <<>> THEN Mean(scores) ELSE default

\* process_segment, lines 139-147: the basic scores
AggregateBasic(m) ==
    [m EXCEPT
        !.sharpness = MeanOr(sharpness_scores, Rat(0, 1)),
        !.brightness = MeanOr(brightness_scores, Rat(0, 1)),
        !.contrast = MeanOr(contrast_scores, Rat(0, 1)),
        !.color_vibrancy = MeanOr(color_scores, Rat(0, 1)),
        !.motion_score = MeanOr(motion_scores, Rat(0, 1)),
        !.composition_score = MeanOr(composition_scores, Rat(0, 1)),
        !.person_score = MeanOr(person_scores, Rat(50, 1)),
        !.center_focus_score = MeanOr(center_focus_scores, Rat(50, 1))]

\* process_segment, lines 139-158: the end of the call, after the loop
Aggregate ==
    /\ pc = "loop" /\ i = n_frames
    /\ \E p_cam \in Picks(Column(camera_movements, "movement_type")),
          p_stab \in Picks(Column(stabilization_data, "stabilization_type")),
          p_light \in Picks(Column(lighting_data, "dominant_type")),
          p_grade \in Picks(Column(color_grading_data, "dominant_profile")),
          p_expo \in Picks(Column(exposure_data, "exposure_class")),
          p_frame \in Picks(Column(framing_data, "shot_size")) :
            metrics' =
                _aggregate_framing(
                 _aggregate_exposure(
                  _aggregate_color_grading(
                   _aggregate_lighting(
                    _aggregate_focus(
                     _aggregate_stabilization(
                      _aggregate_camera_movement(AggregateBasic(metrics),
                                                 camera_movements, p_cam),
                      stabilization_data, p_stab),
                     focus_data),
                    lighting_data, p_light),
                   color_grading_data, p_grade),
                  exposure_data, p_expo),
                 framing_data, p_frame)
    /\ pc' = "done"
    /\ UNCHANGED <<n_frames, i, prev_frame, score_lists, cinematic_lists, calls>>
    /\ UNCHANGED <<overlap_vars, movement_vars, aux_vars>>

(***************************************************************************)
(* States in which a part of the model is not in use                       *)
(***************************************************************************)
NoFrame == [idx |-> -1]

SegmentIdle ==
    /\ pc = "idle" /\ n_frames = 0 /\ i = 0 /\ prev_frame = NoFrame
    /\ sharpness_scores = <<>> /\ brightness_scores = <<>> /\ contrast_scores = <<>>
    /\ color_scores = <<>> /\ motion_scores = <<>> /\ composition_scores = <<>>
    /\ person_scores = <<>> /\ center_focus_scores = <<>>
    /\ camera_movements = <<>> /\ stabilization_data = <<>> /\ focus_data = <<>>
    /\ lighting_data = <<>> /\ color_grading_data = <<>> /\ exposure_data = <<>>
    /\ framing_data = <<>>
    /\ metrics = ScoreMetrics /\ calls = <<>>

OverlapIdle == seg_a = <<>> /\ seg_b = <<>> /\ overlap_result = <<>>

MovementIdle == mv_in = <<>> /\ mv_out = <<>>

ClassifyIdle == cl_frame = <<>> /\ cl_out = <<>>

ReaderIdle ==
    /\ rd_video = <<>> /\ rd_duration = 0 /\ rd_start = 0 /\ rd_yielded = <<>>
    /\ rd_pc = "idle"

IndexerIdle ==
    /\ ix_entry = "idle" /\ ix_duration = 0 /\ ix_videos = <<>> /\ ix_idx = 0
    /\ ix_opened = {} /\ ix_metadata = <<>> /\ ix_segments = <<>> /\ ix_file = <<>>
    /\ ix_pc = "idle"

AuxIdle == ClassifyIdle /\ ReaderIdle /\ IndexerIdle

(***************************************************************************)
(* SpecAggregate: the end of process_segment (lines 139-158) on every      *)
(* list of per-frame judgments up to MaxData samples.  The seven lists     *)
(* have one length, as they do after the loop; each aggregator reads its   *)
(* own list only, so one family is varied at a time and the other lists    *)
(* repeat one judgment.  The basic score lists hold the samples a segment  *)
(* of 6 * m + 1 frames gives.                                              *)
(***************************************************************************)
MaxData == 4

CameraJudgments ==
    {[movement_type |-> "Static", confidence |-> 10000, smoothness |-> 10000,
      cinematic_quality |-> 5000],
     [movement_type |-> "Pan Left", confidence |-> 7500, smoothness |-> 8500,
      cinematic_quality |-> 9625],
     [movement_type |-> "Zoom In", confidence |-> 10000, smoothness |-> 9400,
      cinematic_quality |-> 10000],
     [movement_type |-> "Handheld/Shake", confidence |-> 6000, smoothness |-> 4000,
      cinematic_quality |-> 3000]}

StabilizationJudgments ==
    {[stabilization_type |-> "unknown", stabilization_score |-> 50],
     [stabilization_type |-> "tripod", stabilization_score |-> 100],
     [stabilization_type |-> "gimbal", stabilization_score |-> 90],
     [stabilization_type |-> "handheld_unstabilized", stabilization_score |-> 40]}

FocusJudgments ==
    {[has_focus_change |-> FALSE, focus_change_amount |-> 0,
      current_sharpness |-> 0, has_shallow_dof |-> FALSE],
     [has_focus_change |-> TRUE, focus_change_amount |-> 2500,
      current_sharpness |-> 45000, has_shallow_dof |-> FALSE],
     [has_focus_change |-> FALSE, focus_change_amount |-> 1000,
      current_sharpness |-> 45000, has_shallow_dof |-> TRUE],
     [has_focus_change |-> TRUE, focus_change_amount |-> 20000,
      current_sharpness |-> 120000, has_shallow_dof |-> TRUE]}

LightingJudgments ==
    {[dominant_type |-> "natural", quality_score |-> 75, is_dramatic |-> FALSE],
     [dominant_type |-> "natural", quality_score |-> 75, is_dramatic |-> TRUE],
     [dominant_type |-> "backlit", quality_score |-> 80, is_dramatic |-> TRUE],
     [dominant_type |-> "unknown", quality_score |-> 50, is_dramatic |-> FALSE]}

GradingJudgments ==
    {[dominant_profile |-> "neutral", grading_strength |-> 50,
      saturation_level |-> 12000, warmth_level |-> 12800],
     [dominant_profile |-> "warm", grading_strength |-> 25,
      saturation_level |-> 12000, warmth_level |-> 16000],
     [dominant_profile |-> "desaturated", grading_strength |-> 80,
      saturation_level |-> 5100, warmth_level |-> 12800],
     [dominant_profile |-> "vibrant", grading_strength |-> 70,
      saturation_level |-> 17850, warmth_level |-> 12500]}

ExposureJudgments ==
    {[exposure_class |-> "properly_exposed", exposure_quality |-> 95,
      is_well_exposed |-> TRUE],
     [exposure_class |-> "properly_exposed", exposure_quality |-> 80,
      is_well_exposed |-> FALSE],
     [exposure_class |-> "underexposed", exposure_quality |-> 0,
      is_well_exposed |-> FALSE],
     [exposure_class |-> "overexposed", exposure_quality |-> 40,
      is_well_exposed |-> FALSE]}

FramingJudgments ==
    {[shot_size |-> "medium", composition_score |-> 50, follows_rule_of_thirds |-> FALSE],
     [shot_size |-> "close_up", composition_score |-> 70, follows_rule_of_thirds |-> TRUE],
     [shot_size |-> "unknown", composition_score |-> 50, follows_rule_of_thirds |-> FALSE],
     [shot_size |-> "wide", composition_score |-> 30, follows_rule_of_thirds |-> FALSE]}

\* the basic scores of one frame with i % 3 == 0
BasicSamples ==
    {[sharpness |-> 0, brightness |-> 0, contrast |-> 0, color |-> 0, composition |-> 0,
      motion |-> 0, person |-> 0, center |-> 0],
     [sharpness |-> 40, brightness |-> 100, contrast |-> 75, color |-> 50,
      composition |-> 60, motion |-> 25, person |-> 50, center |-> 50],
     [sharpness |-> 100, brightness |-> 60, contrast |-> 100, color |-> 90,
      composition |-> 100, motion |-> 100, person |-> 100, center |-> 20]}

Families == {"camera", "stabilization", "focus", "lighting", "grading", "exposure", "framing"}

JudgmentsOf(f) ==
    CASE f = "camera" -> CameraJudgments
      [] f = "stabilization" -> StabilizationJudgments
      [] f = "focus" -> FocusJudgments
      [] f = "lighting" -> LightingJudgments
      [] f = "grading" -> GradingJudgments
      [] f = "exposure" -> ExposureJudgments
      [] f = "framing" -> FramingJudgments
      [] f = "basic" -> BasicSamples

\* the judgment the lists of the families not varied repeat
FillOf(f) == CHOOSE j \in JudgmentsOf(f) : j = j

Repeat(m, v) == [k \in 1..m |-> v]

\* m samples of family f: the list xs for the varied family, a repeated one otherwise
DataFor(f, varied, xs, m) == IF f = varied THEN xs ELSE Repeat(m, FillOf(f))

\* The frames 0, 3, 6, ... give the basic samples; those at 0, 6, 12, ... the person
\* scores, all but the first a motion score, and those at 6, 12, ... the cinematic ones.
EverySecond(xs) == [k \in 1..((Len(xs) + 1) \div 2) |-> xs[2 * k - 1]]

CinematicCount(a) == IF a = 0 THEN 0 ELSE (a + 1) \div 2 - 1

\* the lists after the loop, from a basic samples and m cinematic samples
ListsAre(varied, basic, xs, m) ==
    /\ n_frames = IF basic = <<>> THEN 0 ELSE 3 * (Len(basic) - 1) + 1
    /\ sharpness_scores = Column(basic, "sharpness")
    /\ brightness_scores = Column(basic, "brightness")
    /\ contrast_scores = Column(basic, "contrast")
    /\ color_scores = Column(basic, "color")
    /\ composition_scores = Column(basic, "composition")
    /\ motion_scores = IF basic = <<>> THEN <<>> ELSE Tail(Column(basic, "motion"))
    /\ person_scores = EverySecond(Column(basic, "person"))
    /\ center_focus_scores = EverySecond(Column(basic, "center"))
    /\ camera_movements = DataFor("camera", varied, xs, m)
    /\ stabilization_data = DataFor("stabilization", varied, xs, m)
    /\ focus_data = DataFor("focus", varied, xs, m)
    /\ lighting_data = DataFor("lighting", varied, xs, m)
    /\ color_grading_data = DataFor("grading", varied, xs, m)
    /\ exposure_data = DataFor("exposure", varied, xs, m)
    /\ framing_data = DataFor("framing", varied, xs, m)

InitAggregate ==
    /\ pc = "loop"
    /\ \/ \E m \in 0..MaxData, varied \in Families :
            \E xs \in [1..m -> JudgmentsOf(varied)] :
                ListsAre(varied, Repeat(IF m = 0 THEN 0 ELSE 2 * m + 1, FillOf("basic")),
                         xs, m)
       \/ \E a \in 0..MaxData :
            \E basic \in [1..a -> BasicSamples] :
                ListsAre("basic", basic, <<>>, CinematicCount(a))
    /\ i = n_frames
    /\ prev_frame = NoFrame
    /\ metrics = ScoreMetrics
    /\ calls = <<>>
    /\ OverlapIdle /\ MovementIdle /\ AuxIdle

NextAggregate == Aggregate

SpecAggregate == InitAggregate /\ [][NextAggregate]_vars

(***************************************************************************)
(* VideoSegment.overlaps_with (data_models.py).  Times are whole ticks.    *)
(***************************************************************************)
overlaps_with_closed(self, other) ==
    IF self.video_file # other.video_file THEN FALSE
    ELSE ~(self.end_time < other.start_time \/ self.start_time > other.end_time)

overlaps_with(self, other) ==
    IF self.video_file # other.video_file THEN FALSE
    ELSE ~(self.end_time <= other.start_time \/ self.start_time >= other.end_time)

MaxTime == 3

VideoFiles == {"a.mp4", "b.mp4"}

\* the VideoSegment objects of the model (metrics left out: overlaps_with reads none)
VideoSegments ==
    {[video_file |-> f, start_time |-> s, end_time |-> e, duration |-> e - s] :
        f \in VideoFiles, s \in 0..MaxTime, e \in 0..MaxTime}

InitOverlap ==
    /\ seg_a \in VideoSegments
    /\ seg_b \in VideoSegments
    /\ overlap_result = <<>>
    /\ SegmentIdle /\ MovementIdle /\ AuxIdle

\* a call seg_a.overlaps_with(seg_b)
CallOverlapsWith ==
    /\ overlap_result = <<>>
    /\ overlap_result' = <<overlaps_with(seg_a, seg_b)>>
    /\ UNCHANGED <<seg_a, seg_b, segment_vars, movement_vars, aux_vars>>

NextOverlap == CallOverlapsWith

SpecOverlap == InitOverlap /\ [][NextOverlap]_vars

(***************************************************************************)
(* CameraMovementMetric (cinematic/camera_movement_metric.py).             *)
(* The arguments of _classify_movement count hundredths (a mean flow       *)
(* magnitude of 0.31 px is 31, a rotation of 0.9 degree is 90, a scale     *)
(* factor of 1.05 is 105), and so do the confidence, smoothness and        *)
(* quality it returns (60.0 is 6000).  The 1e-6 of std_mag / (mean_mag +   *)
(* 1e-6) decides no comparison between hundredths except that a zero       *)
(* mean_mag divides; the quotients are rounded down to a hundredth.        *)
(***************************************************************************)
\* variance_ratio > 1.5
VarianceRatioHigh(mean_mag, std_mag) == 2 * std_mag > 3 * mean_mag

\* variance_ratio * 30, for mean_mag > 0
VarianceRatioTimes30(mean_mag, std_mag) == (3000 * std_mag) \div mean_mag

\* direction_consistency = max(0, min(1, 1.0 - std_mag / (mean_mag + 1e-6)))
DirectionConsistency(mean_mag, std_mag) ==
    IF std_mag = 0 THEN 100
    ELSE IF mean_mag = 0 THEN 0
    ELSE Max(0, Min(100, 100 - (100 * std_mag) \div mean_mag))

\* direction_consistency > 0.6
DirectionConsistent(mean_mag, std_mag) == 5 * std_mag <= 2 * mean_mag

\* the branch of the if / elif chain of _classify_movement that is taken
MovementBranchPanFirst(mean_mag, std_mag, translation_x, translation_y, scale_factor, rotation_angle, median_radial) ==
    IF VarianceRatioHigh(mean_mag, std_mag) /\ mean_mag > 30 THEN "handheld"
    ELSE IF Abs(rotation_angle) > 80 THEN "rotation"
    ELSE IF Abs(translation_x) > 80 THEN "pan"
    ELSE IF Abs(scale_factor - 100) > 1 \/ Abs(median_radial) > 15 THEN "zoom"
    ELSE IF Abs(translation_y) > 80 THEN "tilt"
    ELSE IF mean_mag > 30 THEN "complex"
    ELSE "static"

MovementBranch(mean_mag, std_mag, translation_x, translation_y, scale_factor, rotation_angle, median_radial) ==
    IF VarianceRatioHigh(mean_mag, std_mag) /\ mean_mag > 30 THEN "handheld"
    ELSE IF Abs(rotation_angle) > 80 THEN "rotation"
    ELSE IF Abs(scale_factor - 100) > 1 \/ Abs(median_radial) > 15 THEN "zoom"
    ELSE IF Abs(translation_x) > 80 THEN "pan"
    ELSE IF Abs(translation_y) > 80 THEN "tilt"
    ELSE IF mean_mag > 30 THEN "complex"
    ELSE "static"

\* _classify_movement without the cap of the cinematic quality
ClassifyMovementUncapped(mean_mag, std_mag, translation_x, translation_y, scale_factor, rotation_angle, median_radial) ==
    LET branch == MovementBranch(mean_mag, std_mag, translation_x, translation_y,
                                 scale_factor, rotation_angle, median_radial)
        consistent == DirectionConsistent(mean_mag, std_mag)
        is_zoom_in == scale_factor < 100 \/ median_radial < 0
        zoom_strength == Max(Abs(scale_factor - 100) * 50, Abs(median_radial))
        movement_type ==
            CASE branch = "handheld" -> "Handheld/Shake"
              [] branch = "rotation" ->
                    IF rotation_angle > 0 THEN "Rotation CCW" ELSE "Rotation CW"
              [] branch = "zoom" ->
                    IF is_zoom_in
                    THEN (IF consistent THEN "Zoom In" ELSE "Dolly In")
                    ELSE (IF consistent THEN "Zoom Out" ELSE "Dolly Out")
              [] branch = "pan" -> IF translation_x > 0 THEN "Pan Right" ELSE "Pan Left"
              [] branch = "tilt" -> IF translation_y > 0 THEN "Tilt Down" ELSE "Tilt Up"
              [] branch = "complex" -> "Complex Movement"
              [] OTHER -> "Static"
        confidence ==
            CASE branch = "handheld" -> Min(10000, VarianceRatioTimes30(mean_mag, std_mag))
              [] branch = "rotation" -> Min(10000, Abs(rotation_angle) * 50)
              [] branch = "zoom" -> Min(10000, zoom_strength * 400)
              [] branch = "pan" -> Min(10000, Abs(translation_x) * 75)
              [] branch = "tilt" -> Min(10000, Abs(translation_y) * 75)
              [] branch = "complex" -> Min(10000, (mean_mag * 400) \div 3)
              [] OTHER -> 10000
        base_quality ==
            CASE branch = "handheld" -> 3000
              [] branch = "rotation" -> 7500
              [] branch = "zoom" ->
                    IF is_zoom_in
                    THEN (IF consistent THEN 8500 ELSE 9000)
                    ELSE (IF consistent THEN 7000 ELSE 8000)
              [] branch = "pan" -> 7500
              [] branch = "tilt" -> 7000
              [] branch = "complex" -> 6500
              [] OTHER -> 5000
        smoothness ==
            IF mean_mag > 10
            THEN Max(0, 10000 - VarianceRatioTimes30(mean_mag, std_mag))
            ELSE 10000
        cinematic_quality ==
            IF movement_type \notin {"Static", "Handheld/Shake"}
            THEN base_quality + (smoothness * 25) \div 100
            ELSE base_quality
    IN  [movement_type |-> movement_type,
         confidence |-> confidence,
         magnitude |-> mean_mag,
         smoothness |-> smoothness,
         cinematic_quality |-> cinematic_quality,
         direction_consistency |-> DirectionConsistency(mean_mag, std_mag),
         scale_factor |-> scale_factor,
         rotation_angle |-> rotation_angle]

_classify_movement(mean_mag, std_mag, translation_x, translation_y, scale_factor, rotation_angle, median_radial) ==
    LET branch == MovementBranch(mean_mag, std_mag, translation_x, translation_y,
                                 scale_factor, rotation_angle, median_radial)
        consistent == DirectionConsistent(mean_mag, std_mag)
        is_zoom_in == scale_factor < 100 \/ median_radial < 0
        zoom_strength == Max(Abs(scale_factor - 100) * 50, Abs(median_radial))
        movement_type ==
            CASE branch = "handheld" -> "Handheld/Shake"
              [] branch = "rotation" ->
                    IF rotation_angle > 0 THEN "Rotation CCW" ELSE "Rotation CW"
              [] branch = "zoom" ->
                    IF is_zoom_in
                    THEN (IF consistent THEN "Zoom In" ELSE "Dolly In")
                    ELSE (IF consistent THEN "Zoom Out" ELSE "Dolly Out")
              [] branch = "pan" -> IF translation_x > 0 THEN "Pan Right" ELSE "Pan Left"
              [] branch = "tilt" -> IF translation_y > 0 THEN "Tilt Down" ELSE "Tilt Up"
              [] branch = "complex" -> "Complex Movement"
              [] OTHER -> "Static"
        confidence ==
            CASE branch = "handheld" -> Min(10000, VarianceRatioTimes30(mean_mag, std_mag))
              [] branch = "rotation" -> Min(10000, Abs(rotation_angle) * 50)
              [] branch = "zoom" -> Min(10000, zoom_strength * 400)
              [] branch = "pan" -> Min(10000, Abs(translation_x) * 75)
              [] branch = "tilt" -> Min(10000, Abs(translation_y) * 75)
              [] branch = "complex" -> Min(10000, (mean_mag * 400) \div 3)
              [] OTHER -> 10000
        base_quality ==
            CASE branch = "handheld" -> 3000
              [] branch = "rotation" -> 7500
              [] branch = "zoom" ->
                    IF is_zoom_in
                    THEN (IF consistent THEN 8500 ELSE 9000)
                    ELSE (IF consistent THEN 7000 ELSE 8000)
              [] branch = "pan" -> 7500
              [] branch = "tilt" -> 7000
              [] branch = "complex" -> 6500
              [] OTHER -> 5000
        smoothness ==
            IF mean_mag > 10
            THEN Max(0, 10000 - VarianceRatioTimes30(mean_mag, std_mag))
            ELSE 10000
        cinematic_quality ==
            IF movement_type \notin {"Static", "Handheld/Shake"}
            THEN Min(10000, base_quality + (smoothness * 25) \div 100)
            ELSE base_quality
    IN  [movement_type |-> movement_type,
         confidence |-> confidence,
         magnitude |-> mean_mag,
         smoothness |-> smoothness,
         cinematic_quality |-> cinematic_quality,
         direction_consistency |-> DirectionConsistency(mean_mag, std_mag),
         scale_factor |-> scale_factor,
         rotation_angle |-> rotation_angle]

\* _get_static_result as the result of the last branch of the cascade
StaticResultConfident ==
    [movement_type |-> "Static", confidence |-> 10000, magnitude |-> 0,
     smoothness |-> 10000, cinematic_quality |-> 5000, direction_consistency |-> 100,
     scale_factor |-> 100, rotation_angle |-> 0]

_get_static_result ==
    [movement_type |-> "Static", confidence |-> 0, magnitude |-> 0,
     smoothness |-> 10000, cinematic_quality |-> 5000, direction_consistency |-> 100,
     scale_factor |-> 100, rotation_angle |-> 0]

\* _track_features: the transform estimated from the tracked corners, and the
\* identity when too few corners were tracked ("few"), when no transform was
\* found ("none") or when the estimation raised ("error")
_track_features(track) ==
    IF track.status = "ok"
    THEN [scale_factor |-> track.scale_factor, rotation_angle |-> track.rotation_angle,
          translation_x |-> track.translation_x, translation_y |-> track.translation_y]
    ELSE [scale_factor |-> 100, rotation_angle |-> 0,
          translation_x |-> 0, translation_y |-> 0]

\* CameraMovementMetric.calculate on what OpenCV measured between prev_frame and
\* frame: flow (the statistics of the dense optical flow) and track (the corners)
CameraMovementMetric_calculate(has_prev, flow, track) ==
    IF ~has_prev THEN _get_static_result
    ELSE LET t == _track_features(track)
         IN  _classify_movement(flow.mean_mag, flow.std_mag,
                                t.translation_x, t.translation_y,
                                t.scale_factor, t.rotation_angle, flow.median_radial)

\* the measurements the model draws from
FlowMeans == {5, 20, 100}

FlowStds == {0, 30, 50, 200}

RadialMedians == {-20, 0, 15, 20}

Flows == [mean_mag : FlowMeans, std_mag : FlowStds, median_radial : RadialMedians]

\* |scale - 1.0| is compared with 0.01 in floats, which take 1.01 - 1.0 for more
\* than 0.01: the scale factors drawn keep clear of 0.99 and 1.01
Tracks ==
    [status : {"ok"}, scale_factor : {95, 100, 105}, rotation_angle : {-100, 0, 80, 90},
     translation_x : {-100, 0, 80, 100}, translation_y : {-100, 0, 100}]
    \cup [status : {"few", "none", "error"}, scale_factor : {100}, rotation_angle : {0},
          translation_x : {0}, translation_y : {0}]

InitMovement ==
    /\ \/ mv_in \in [has_prev : {TRUE}, flow : Flows, track : Tracks]
       \/ mv_in \in [has_prev : {FALSE}, flow : {[mean_mag |-> 0, std_mag |-> 0,
                                                 median_radial |-> 0]},
                     track : {[status |-> "none", scale_factor |-> 100,
                               rotation_angle |-> 0, translation_x |-> 0,
                               translation_y |-> 0]}]
    /\ mv_out = <<>>
    /\ SegmentIdle /\ OverlapIdle /\ AuxIdle

\* a call of CameraMovementMetric.calculate
CallCameraMovement ==
    /\ mv_out = <<>>
    /\ mv_out' = CameraMovementMetric_calculate(mv_in.has_prev, mv_in.flow, mv_in.track)
    /\ UNCHANGED <<mv_in, segment_vars, overlap_vars, aux_vars>>

NextMovement == CallCameraMovement

SpecMovement == InitMovement /\ [][NextMovement]_vars

(***************************************************************************)
(* The basic metrics (src/metrics/*_metric.py).  A frame is the record of  *)
(* what OpenCV measures on it; statistics on the 0..255 scale, percentages *)
(* and pixel displacements count hundredths, variances and pixel           *)
(* coordinates are whole numbers.  Every score returned counts hundredths. *)
(***************************************************************************)
\* np.sqrt, rounded down
ISqrt(x) == CHOOSE r \in 0..x : r * r <= x /\ (r + 1) * (r + 1) > x

Clamp(lo, hi, x) == Max(lo, Min(hi, x))

\* SharpnessMetric.calculate: min(variance / 1000, 1.0)
SharpnessMetric_calculate(frame) == Min(100, (frame.lap_var * 100) \div 1000)

\* BrightnessMetric.calculate: l_mean / 255 scored against the range 0.3 .. 0.8
BrightnessMetric_calculate(frame) ==
    LET l == frame.l_mean
        score == IF l < 7650 THEN (100 * l) \div 7650
                 ELSE IF l > 20400 THEN (100 * (25500 - l)) \div 5100
                 ELSE 100
    IN  Clamp(0, 100, score)

\* ContrastMetric.calculate: min(std_dev / 60, 1.0)
ContrastMetric_calculate(frame) == Min(100, frame.gray_std \div 60)

\* ColorVibrancyMetric.calculate: mean saturation / 255
ColorVibrancyMetric_calculate(frame) == frame.s_mean \div 255

\* CompositionMetric.calculate, on the mean and the standard deviation of the
\* edge counts of the nine sections
CompositionMetric_calculate(frame) ==
    IF frame.edge_mean = 0 THEN 0
    ELSE Max(0, 100 - Min(100, (50 * frame.edge_std) \div (frame.edge_mean + 1)))

\* MotionMetric.calculate, on the mean flow magnitude between the two frames
MotionMetric_calculate(has_prev, avg_motion) ==
    IF ~has_prev THEN 0
    ELSE LET score == IF avg_motion < 300 THEN avg_motion \div 6
                      ELSE IF avg_motion > 2000
                           THEN Max(0, 100 - (avg_motion - 2000) \div 30)
                      ELSE 50 + ((avg_motion - 300) * 50) \div 1700
         IN  Clamp(0, 100, score)

\* PersonDetectionMetric._calculate_person_score
_calculate_person_score(box_w, box_h, frame_w, frame_h) ==
    LET area == box_w * box_h
        frame_area == frame_w * frame_h
        score == IF 100 * area < 15 * frame_area
                 THEN (400 * area) \div frame_area
                 ELSE IF 100 * area > 70 * frame_area
                      THEN Max(30, 100 - (1000 * area - 700 * frame_area) \div (3 * frame_area))
                 ELSE 60 + Min((2000 * area - 300 * frame_area) \div (11 * frame_area), 40)
    IN  Clamp(0, 100, score)

\* PersonDetectionMetric._calculate_center_focus
_calculate_center_focus(x, y, box_w, box_h, frame_w, frame_h) ==
    LET dist_x == (100 * Abs(2 * x + box_w - frame_w)) \div frame_w
        dist_y == (100 * Abs(2 * y + box_h - frame_h)) \div frame_h
        center_distance == ISqrt(dist_x * dist_x + dist_y * dist_y)
    IN  Max(0, 100 - (center_distance * 80) \div 100)

\* PersonDetectionMetric.calculate: <<person_score, center_focus_score>>.  The
\* detector finds no box ("none"), a largest box ("found") or raises ("error").
PersonDetectionMetric_calculate(frame) ==
    LET p == frame.person IN
    CASE p.status = "error" -> <<50, 50>>
      [] p.status = "none" -> <<0, 0>>
      [] OTHER -> <<_calculate_person_score(p.box_w, p.box_h, frame.w, frame.h),
                    _calculate_center_focus(p.x, p.y, p.box_w, p.box_h, frame.w, frame.h)>>

(***************************************************************************)
(* The cinematic classifiers that read one frame, or the frame and         *)
(* prev_frame (src/metrics/cinematic/*.py).  Each returns the fields of    *)
(* its dictionary that process_segment's aggregators read.                 *)
(***************************************************************************)
\* StabilizationMetric.calculate as the variant that scores whatever was tracked
StabilizationMetricAnyCorners(has_prev, stab) ==
    IF ~has_prev
    THEN [stabilization_type |-> "unknown", stabilization_score |-> 50]
    ELSE [stabilization_type |-> IF stab.motion_std <= 5 THEN "tripod" ELSE "gimbal",
          stabilization_score |-> 10000 \div (100 + stab.motion_std)]

\* StabilizationMetric.calculate as the variant that does not count the
\* corners that were tracked
StabilizationMetricUnfiltered(has_prev, stab) ==
    IF \/ ~has_prev
       \/ stab.corners < 20
       \/ ~stab.tracked
    THEN [stabilization_type |-> "unknown", stabilization_score |-> 50]
    ELSE [stabilization_type |->
              IF 10000 >= 95 * (100 + stab.motion_std) THEN "tripod"
              ELSE IF 10000 >= 85 * (100 + stab.motion_std) THEN "gimbal"
              ELSE IF 10000 >= 70 * (100 + stab.motion_std) THEN "handheld_stabilized"
              ELSE "handheld_unstabilized",
          stabilization_score |-> 10000 \div (100 + stab.motion_std)]

\* StabilizationMetric.calculate, on the corners found in prev_frame, their
\* tracking into frame and the mean standard deviation of their motion
StabilizationMetric_calculate(has_prev, stab) ==
    IF \/ ~has_prev
       \/ stab.corners < 20
       \/ ~stab.tracked
       \/ stab.good < 20
    THEN [stabilization_type |-> "unknown", stabilization_score |-> 50]
    ELSE LET den == 100 + stab.motion_std
             stabilization_type ==
                 IF 10000 >= 95 * den THEN "tripod"
                 ELSE IF 10000 >= 85 * den THEN "gimbal"
                 ELSE IF 10000 >= 70 * den THEN "handheld_stabilized"
                 ELSE "handheld_unstabilized"
         IN  [stabilization_type |-> stabilization_type,
              stabilization_score |-> 10000 \div den]

\* FocusChangeMetric._detect_bokeh
_detect_bokeh(frame) == frame.region_var > 1000

\* focus_change / (prev_sharpness + 1e-6) * 100; a change from a frame of zero
\* sharpness is 10^8 times the new sharpness, carried here as 10^8 hundredths
focus_change_percentage(current, prev) ==
    IF prev = 0 THEN (IF current = 0 THEN 0 ELSE 100000000)
    ELSE (10000 * Abs(current - prev)) \div prev

\* FocusChangeMetric.calculate
FocusChangeMetric_calculate(frame, has_prev, prev) ==
    IF ~has_prev
    THEN [has_focus_change |-> FALSE, focus_change_amount |-> 0,
          current_sharpness |-> 100 * frame.lap_var, has_shallow_dof |-> _detect_bokeh(frame)]
    ELSE [has_focus_change |->
              IF prev.lap_var = 0 THEN frame.lap_var > 0
              ELSE 100 * Abs(frame.lap_var - prev.lap_var) > 15 * prev.lap_var,
          focus_change_amount |-> focus_change_percentage(frame.lap_var, prev.lap_var),
          current_sharpness |-> 100 * frame.lap_var,
          has_shallow_dof |-> _detect_bokeh(frame)]

\* the variant that keeps the last entry of the greatest confidence
DominantLast(scores) ==
    LET best == CHOOSE k \in 1..Len(scores) :
                    /\ \A j \in 1..Len(scores) : scores[j][2] <= scores[k][2]
                    /\ \A j \in (k + 1)..Len(scores) : scores[j][2] < scores[k][2]
    IN  scores[best]

\* max(confidence_scores.items(), key=...): the first entry, in insertion
\* order, of the greatest confidence
Dominant(scores) ==
    LET best == CHOOSE k \in 1..Len(scores) :
                    /\ \A j \in 1..Len(scores) : scores[j][2] <= scores[k][2]
                    /\ \A j \in 1..(k - 1) : scores[j][2] < scores[k][2]
    IN  scores[best]

\* the <<name, confidence>> entry when its test holds
Entry(test, name, confidence) == IF test THEN <<(<<name, confidence>>)>> ELSE <<>>

\* LightingTypeMetric.calculate: confidence_scores in insertion order
LightingConfidence(frame) ==
    LET l == frame.l_mean
        sd == frame.l_std
        b == frame.b_mean
        golden == b > 13500 /\ 10000 < l /\ l < 18000 /\ sd < 5000
        high_key == l > 17000 /\ sd < 4000
    IN  Entry(golden, "golden_hour", Min((b - 12800) * 5, 10000))
        \o Entry(~golden /\ b < 11500 /\ 8000 < l /\ l < 15000, "blue_hour", 7000)
        \o Entry(10000 < l /\ l < 18000 /\ 3000 < sd /\ sd < 6000, "natural", 7500)
        \o Entry(high_key, "high_key", Min(((l - 17000) * 100) \div 85, 10000))
        \o Entry(~high_key /\ l < 10000 /\ sd > 4500, "low_key", Min(10000 - l, 10000))
        \o Entry(frame.dark_ratio > 30 /\ frame.bright_ratio > 20 /\ sd > 5000, "backlit", 8000)
        \o Entry(\A q \in 1..4 : 15 < frame.quarters[q] /\ frame.quarters[q] < 35,
                 "three_point", 7000)
        \o Entry(9000 < l /\ l < 17000 /\ 2500 < sd /\ sd < 5500, "motivated", 6000)

LightingTypeMetric_calculate(frame) ==
    LET found == LightingConfidence(frame)
        scores == IF found = <<>> THEN <<(<<"unknown", 5000>>)>> ELSE found
        dominant == Dominant(scores)
    IN  [dominant_type |-> dominant[1], quality_score |-> dominant[2] \div 100,
         is_dramatic |-> frame.l_std > 5000]

\* the predicates of ColorGradingMetric.calculate with monochrome tested
\* before desaturated
GradingConfidenceMonochromeFirst(frame) ==
    LET sat == frame.s_mean
        b == frame.b_mean
    IN  Entry(b > 13500, "warm", Min(((b - 12800) * 100) \div 127, 10000))
        \o Entry(b <= 13500 /\ b < 12000, "cool", Min(((12800 - b) * 100) \div 128, 10000))
        \o Entry(sat < 2000, "monochrome", 10000 - sat * 5)
        \o Entry(sat < 8000, "desaturated", 10000 - (sat * 100) \div 255)
        \o Entry(sat >= 8000 /\ sat > 15000, "vibrant", (sat * 100) \div 255)
        \o Entry(/\ frame.teal # <<>>
                 /\ frame.teal[1] > 12000
                 /\ frame.teal[2] > 14000, "teal_orange", 7500)
        \o Entry(sat < 10000 /\ b > 13000, "vintage", 7000)

\* ColorGradingMetric.calculate: confidence_scores in insertion order
GradingConfidence(frame) ==
    LET sat == frame.s_mean
        b == frame.b_mean
    IN  Entry(b > 13500, "warm", Min(((b - 12800) * 100) \div 127, 10000))
        \o Entry(b <= 13500 /\ b < 12000, "cool", Min(((12800 - b) * 100) \div 128, 10000))
        \o Entry(sat < 8000, "desaturated", 10000 - (sat * 100) \div 255)
        \o Entry(sat >= 8000 /\ sat > 15000, "vibrant", (sat * 100) \div 255)
        \o Entry(sat < 2000, "monochrome", 10000 - sat * 5)
        \o Entry(/\ frame.teal # <<>>
                 /\ frame.teal[1] > 12000
                 /\ frame.teal[2] > 14000, "teal_orange", 7500)
        \o Entry(sat < 10000 /\ b > 13000, "vintage", 7000)

\* the variant that records neutral whatever fired
ColorGradingAlwaysNeutral(frame) ==
    LET scores == GradingConfidence(frame) \o <<(<<"neutral", 5000>>)>>
        dominant == Dominant(scores)
    IN  [dominant_profile |-> dominant[1], grading_strength |-> dominant[2] \div 100,
         saturation_level |-> frame.s_mean, warmth_level |-> frame.b_mean]

ColorGradingMetric_calculate(frame) ==
    LET found == GradingConfidence(frame)
        scores == IF found = <<>> THEN <<(<<"neutral", 5000>>)>> ELSE found
        dominant == Dominant(scores)
    IN  [dominant_profile |-> dominant[1], grading_strength |-> dominant[2] \div 100,
         saturation_level |-> frame.s_mean, warmth_level |-> frame.b_mean]

\* ExposureMetric.calculate as the variant that overlooks the clipped highlights
ExposureMetricShadowsOnly(frame) ==
    LET l == frame.l_mean
        in_range == 9000 < l /\ l < 16500
    IN  [exposure_class |-> IF in_range THEN "properly_exposed"
                            ELSE IF l < 9000 THEN "underexposed"
                            ELSE "overexposed",
         exposure_quality |-> 0,
         is_well_exposed |-> in_range /\ frame.crushed_pct < 500]

\* ExposureMetric.calculate
ExposureMetric_calculate(frame) ==
    LET l == frame.l_mean
        in_range == 9000 < l /\ l < 16500
        exposure_class == IF in_range THEN "properly_exposed"
                          ELSE IF l < 9000 THEN "underexposed"
                          ELSE "overexposed"
        base == IF in_range THEN 10000 - (Abs(l - 12750) * 2000) \div 12750
                ELSE IF l < 9000 THEN Max(0, (l * 70) \div 90)
                ELSE Max(0, ((25500 - l) * 70) \div 90)
        exposure_score == Clamp(0, 10000,
                                base - (2 * frame.clipped_pct + 2 * frame.crushed_pct))
    IN  [exposure_class |-> exposure_class,
         exposure_quality |-> exposure_score \div 100,
         is_well_exposed |-> in_range /\ frame.clipped_pct < 500 /\ frame.crushed_pct < 500]

\* _classify_shot_size with thresholds that include their bound
ClassifyShotSizeInclusive(cw, ch, w, h) ==
    LET subject_area == cw * ch
        frame_area == w * h
    IN  IF 10 * subject_area >= 4 * frame_area /\ 10 * cw < 6 * w /\ 10 * ch < 6 * h
        THEN "insert"
        ELSE IF 100 * subject_area >= 60 * frame_area THEN "extreme_close_up"
        ELSE IF 100 * subject_area >= 35 * frame_area THEN "close_up"
        ELSE IF 100 * subject_area >= 15 * frame_area THEN "medium"
        ELSE IF 100 * subject_area >= 5 * frame_area THEN "wide"
        ELSE "extreme_wide"

\* _classify_shot_size with an override that needs only one side to be short
ClassifyShotSizeEitherSide(cw, ch, w, h) ==
    LET subject_area == cw * ch
        frame_area == w * h
    IN  IF 10 * subject_area > 4 * frame_area /\ (10 * cw < 6 * w \/ 10 * ch < 6 * h)
        THEN "insert"
        ELSE IF 100 * subject_area > 60 * frame_area THEN "extreme_close_up"
        ELSE IF 100 * subject_area > 35 * frame_area THEN "close_up"
        ELSE IF 100 * subject_area > 15 * frame_area THEN "medium"
        ELSE IF 100 * subject_area > 5 * frame_area THEN "wide"
        ELSE "extreme_wide"

\* ShotFramingMetric._classify_shot_size, on the bounding box cw x ch of the
\* largest contour in a frame of w x h
_classify_shot_size(cw, ch, w, h) ==
    LET subject_area == cw * ch
        frame_area == w * h
    IN  IF 10 * subject_area > 4 * frame_area /\ 10 * cw < 6 * w /\ 10 * ch < 6 * h
        THEN "insert"
        ELSE IF 100 * subject_area > 60 * frame_area THEN "extreme_close_up"
        ELSE IF 100 * subject_area > 35 * frame_area THEN "close_up"
        ELSE IF 100 * subject_area > 15 * frame_area THEN "medium"
        ELSE IF 100 * subject_area > 5 * frame_area THEN "wide"
        ELSE "extreme_wide"

\* six times the distance from the subject's centre to the power point (px, py),
\* px and py given as sixths of the frame
PowerPointDistance(x, y, cw, ch, px, py) ==
    LET dx == 6 * x + 3 * cw - px
        dy == 6 * y + 3 * ch - py
    IN  ISqrt(dx * dx + dy * dy)

\* ShotFramingMetric._analyze_composition: the scores count hundredths of 0..100
_analyze_composition(x, y, cw, ch, w, h, horizon_y) ==
    LET min_distance ==
            Min(Min(PowerPointDistance(x, y, cw, ch, 2 * w, 2 * h),
                    PowerPointDistance(x, y, cw, ch, 4 * w, 2 * h)),
                Min(PowerPointDistance(x, y, cw, ch, 2 * w, 4 * h),
                    PowerPointDistance(x, y, cw, ch, 4 * w, 4 * h)))
        proximity_score == Max(0, 10000 - (100000 * min_distance) \div (6 * Min(w, h)))
        to_upper == Abs(3 * horizon_y - h)
        to_lower == Abs(3 * horizon_y - 2 * h)
        horizon_score ==
            IF 20 * to_upper < 3 * h \/ 20 * to_lower < 3 * h THEN 10000
            ELSE Max(0, 10000 - (10000 * Min(to_upper, to_lower)) \div h)
        total_space == (w - cw) + (h - ch)
        negative_space_score ==
            IF 6 * (w + h) < 10 * total_space /\ 10 * total_space < 14 * (w + h) THEN 10000
            ELSE Max(0, 10000 - (10000 * Abs(total_space - (w + h))) \div (w + h))
    IN  [score |-> (40 * proximity_score + 30 * horizon_score
                    + 30 * negative_space_score) \div 100,
         thirds_score |-> proximity_score]

\* ShotFramingMetric.calculate; _get_default_result when no contour is found
ShotFramingMetric_calculate(frame) ==
    IF frame.contour = <<>>
    THEN [shot_size |-> "unknown", composition_score |-> 50,
          follows_rule_of_thirds |-> FALSE]
    ELSE LET c == frame.contour[1]
             analysis == _analyze_composition(c.x, c.y, c.cw, c.ch,
                                              frame.w, frame.h, frame.horizon_y)
         IN  [shot_size |-> _classify_shot_size(c.cw, c.ch, frame.w, frame.h),
              composition_score |-> analysis.score \div 100,
              follows_rule_of_thirds |-> analysis.thirds_score > 6000]

(***************************************************************************)
(* process_segment's loop over the frames (segment_processor.py lines 66   *)
(* to 137).  The frames of the list are drawn, one per iteration that reads *)
(* its frame, from FrameKinds, and what OpenCV measures between prev_frame  *)
(* and the frame from PairKinds.                                            *)
(***************************************************************************)
MaxFrames == 12

BlackFrame ==
    [w |-> 160, h |-> 120, lap_var |-> 0, region_var |-> 0, gray_std |-> 0,
     l_mean |-> 0, l_std |-> 0, b_mean |-> 12800, s_mean |-> 0,
     dark_ratio |-> 100, bright_ratio |-> 0, quarters |-> <<100, 0, 0, 0>>,
     clipped_pct |-> 0, crushed_pct |-> 10000, teal |-> <<>>,
     edge_mean |-> 0, edge_std |-> 0, contour |-> <<>>, horizon_y |-> 0,
     person |-> [status |-> "none", x |-> 0, y |-> 0, box_w |-> 0, box_h |-> 0]]

DaylightFrame ==
    [w |-> 160, h |-> 120, lap_var |-> 450, region_var |-> 200, gray_std |-> 4500,
     l_mean |-> 13000, l_std |-> 4000, b_mean |-> 13200, s_mean |-> 12800,
     dark_ratio |-> 5, bright_ratio |-> 5, quarters |-> <<10, 40, 40, 10>>,
     clipped_pct |-> 0, crushed_pct |-> 0, teal |-> <<11000, 15000>>,
     edge_mean |-> 20000, edge_std |-> 8000,
     contour |-> <<[x |-> 40, y |-> 20, cw |-> 60, ch |-> 80]>>, horizon_y |-> 40,
     person |-> [status |-> "found", x |-> 50, y |-> 20, box_w |-> 60, box_h |-> 90]]

SunsetFrame ==
    [w |-> 160, h |-> 120, lap_var |-> 1500, region_var |-> 5000, gray_std |-> 9000,
     l_mean |-> 17500, l_std |-> 9000, b_mean |-> 15000, s_mean |-> 18000,
     dark_ratio |-> 31, bright_ratio |-> 55, quarters |-> <<32, 4, 4, 60>>,
     clipped_pct |-> 800, crushed_pct |-> 100, teal |-> <<13000, 20000>>,
     edge_mean |-> 50000, edge_std |-> 60000,
     contour |-> <<[x |-> 0, y |-> 0, cw |-> 150, ch |-> 110]>>, horizon_y |-> 100,
     person |-> [status |-> "error", x |-> 0, y |-> 0, box_w |-> 0, box_h |-> 0]]

FrameKinds == {BlackFrame, DaylightFrame, SunsetFrame}

StillPair ==
    [avg_motion |-> 0,
     flow |-> [mean_mag |-> 0, std_mag |-> 0, median_radial |-> 0],
     track |-> [status |-> "few", scale_factor |-> 100, rotation_angle |-> 0,
                translation_x |-> 0, translation_y |-> 0],
     stab |-> [corners |-> 0, tracked |-> FALSE, good |-> 0, motion_std |-> 0]]

PanPair ==
    [avg_motion |-> 800,
     flow |-> [mean_mag |-> 100, std_mag |-> 30, median_radial |-> 0],
     track |-> [status |-> "ok", scale_factor |-> 100, rotation_angle |-> 0,
                translation_x |-> 100, translation_y |-> 0],
     stab |-> [corners |-> 100, tracked |-> TRUE, good |-> 90, motion_std |-> 5]]

ShakePair ==
    [avg_motion |-> 2600,
     flow |-> [mean_mag |-> 100, std_mag |-> 200, median_radial |-> 0],
     track |-> [status |-> "ok", scale_factor |-> 100, rotation_angle |-> 0,
                translation_x |-> 0, translation_y |-> 0],
     stab |-> [corners |-> 50, tracked |-> TRUE, good |-> 40, motion_std |-> 150]]

PairKinds == {StillPair, PanPair, ShakePair}

\* a frame without texture has no corner to track
PairsFor(prev, frame) ==
    IF prev = NoFrame THEN {StillPair}
    ELSE IF prev.image.lap_var = 0 THEN {p \in PairKinds : p.stab.corners = 0}
    ELSE PairKinds

\* line 70: the frames on which the basic metrics are computed
BasicFrame(k) == k % 3 = 0

\* line 89 as the variant that samples with the basic metrics
PersonFrameEveryThird(k) == k % 3 = 0

\* line 89: the frames, among those, on which people are detected
PersonFrame(k) == k % 6 = 0

\* line 102 as the variant that does not ask for a previous frame
CinematicFrameNoPrev(k, has_prev) == k % 6 = 0

\* the cinematic classifiers run on every frame that is read and has a
\* previous frame
CinematicFrameEveryThird(k, has_prev) == k % 3 = 0 /\ has_prev

\* line 102: the frames, among those, on which the cinematic classifiers run
CinematicFrame(k, has_prev) == k % 6 = 0 /\ has_prev

\* the body of the loop for frame i: lines 70-137, the frame being one of
\* kinds.  calls receives, for the frame visited, which lists grew and the
\* index of the prev_frame in use.
VisitFrameOf(kinds) ==
    /\ pc = "loop" /\ i < n_frames
    /\ i' = i + 1
    /\ IF ~BasicFrame(i)
       THEN UNCHANGED <<prev_frame, score_lists, cinematic_lists>>
       ELSE \E frame \in kinds : \E pair \in PairsFor(prev_frame, frame) :
            LET has_prev == prev_frame # NoFrame
                person == PersonDetectionMetric_calculate(frame)
            IN
            /\ sharpness_scores' = Append(sharpness_scores, SharpnessMetric_calculate(frame))
            /\ brightness_scores' = Append(brightness_scores, BrightnessMetric_calculate(frame))
            /\ contrast_scores' = Append(contrast_scores, ContrastMetric_calculate(frame))
            /\ color_scores' = Append(color_scores, ColorVibrancyMetric_calculate(frame))
            /\ composition_scores' =
                   Append(composition_scores, CompositionMetric_calculate(frame))
            /\ IF PersonFrame(i)
               THEN /\ person_scores' = Append(person_scores, person[1])
                    /\ center_focus_scores' = Append(center_focus_scores, person[2])
               ELSE UNCHANGED <<person_scores, center_focus_scores>>
            /\ IF has_prev
               THEN motion_scores' =
                        Append(motion_scores, MotionMetric_calculate(TRUE, pair.avg_motion))
               ELSE UNCHANGED motion_scores
            /\ IF CinematicFrame(i, has_prev)
               THEN /\ camera_movements' =
                           Append(camera_movements,
                                  CameraMovementMetric_calculate(has_prev, pair.flow, pair.track))
                    /\ stabilization_data' =
                           Append(stabilization_data,
                                  StabilizationMetric_calculate(has_prev, pair.stab))
                    /\ focus_data' =
                           Append(focus_data,
                                  FocusChangeMetric_calculate(frame, has_prev, prev_frame.image))
                    /\ lighting_data' = Append(lighting_data, LightingTypeMetric_calculate(frame))
                    /\ color_grading_data' =
                           Append(color_grading_data, ColorGradingMetric_calculate(frame))
                    /\ exposure_data' = Append(exposure_data, ExposureMetric_calculate(frame))
                    /\ framing_data' = Append(framing_data, ShotFramingMetric_calculate(frame))
               ELSE UNCHANGED cinematic_lists
            /\ prev_frame' = [idx |-> i, image |-> frame]
    /\ calls' = Append(calls,
           [frame |-> i,
            prev |-> prev_frame.idx,
            basic |-> {Len(sharpness_scores') - Len(sharpness_scores),
                       Len(brightness_scores') - Len(brightness_scores),
                       Len(contrast_scores') - Len(contrast_scores),
                       Len(color_scores') - Len(color_scores),
                       Len(composition_scores') - Len(composition_scores)},
            person |-> {Len(person_scores') - Len(person_scores),
                        Len(center_focus_scores') - Len(center_focus_scores)},
            motion |-> {Len(motion_scores') - Len(motion_scores)},
            cinematic |-> {Len(camera_movements') - Len(camera_movements),
                           Len(stabilization_data') - Len(stabilization_data),
                           Len(focus_data') - Len(focus_data),
                           Len(lighting_data') - Len(lighting_data),
                           Len(color_grading_data') - Len(color_grading_data),
                           Len(exposure_data') - Len(exposure_data),
                           Len(framing_data') - Len(framing_data)}])
    /\ UNCHANGED <<pc, n_frames, metrics, overlap_vars, movement_vars, aux_vars>>

VisitFrame == VisitFrameOf(FrameKinds)

InitSegment ==
    /\ pc = "loop"
    /\ n_frames \in 0..MaxFrames
    /\ i = 0
    /\ prev_frame = NoFrame
    /\ sharpness_scores = <<>> /\ brightness_scores = <<>> /\ contrast_scores = <<>>
    /\ color_scores = <<>> /\ motion_scores = <<>> /\ composition_scores = <<>>
    /\ person_scores = <<>> /\ center_focus_scores = <<>>
    /\ camera_movements = <<>> /\ stabilization_data = <<>> /\ focus_data = <<>>
    /\ lighting_data = <<>> /\ color_grading_data = <<>> /\ exposure_data = <<>>
    /\ framing_data = <<>>
    /\ metrics = ScoreMetrics
    /\ calls = <<>>
    /\ OverlapIdle /\ MovementIdle /\ AuxIdle

NextSegment == VisitFrame \/ Aggregate

SpecSegment == InitSegment /\ [][NextSegment]_vars

(***************************************************************************)
(* process_segment on a segment of black frames: every frame is BlackFrame  *)
(* (mean lightness 0, no texture), so that no corner is found and the flow  *)
(* between any two of them is zero.                                         *)
(***************************************************************************)
BlackSegmentFrames == 30

\* lines 45-66: the locals of process_segment when the loop is entered
FreshLocals ==
    /\ pc = "loop"
    /\ i = 0
    /\ prev_frame = NoFrame
    /\ sharpness_scores = <<>> /\ brightness_scores = <<>> /\ contrast_scores = <<>>
    /\ color_scores = <<>> /\ motion_scores = <<>> /\ composition_scores = <<>>
    /\ person_scores = <<>> /\ center_focus_scores = <<>>
    /\ camera_movements = <<>> /\ stabilization_data = <<>> /\ focus_data = <<>>
    /\ lighting_data = <<>> /\ color_grading_data = <<>> /\ exposure_data = <<>>
    /\ framing_data = <<>>
    /\ metrics = ScoreMetrics

InitBlack ==
    /\ n_frames \in 0..BlackSegmentFrames
    /\ FreshLocals
    /\ calls = <<>>
    /\ OverlapIdle /\ MovementIdle /\ AuxIdle

VisitBlackFrame == VisitFrameOf({BlackFrame})

NextBlack == VisitBlackFrame \/ Aggregate

SpecBlack == InitBlack /\ [][NextBlack]_vars

(***************************************************************************)
(* index_video calls process_segment once for every segment the reader      *)
(* yields, on the one SegmentProcessor of the indexer.  Here calls is kept   *)
(* over the calls, so that a call can be told from the one before it; the    *)
(* frames of all the calls together are at most MaxFrames.                   *)
(***************************************************************************)
\* the locals of a call that is entered on top of whatever the last call left
EnterKeepingPrevFrame(n) ==
    /\ pc' = "loop" /\ n_frames' = n /\ i' = 0
    /\ sharpness_scores' = <<>> /\ brightness_scores' = <<>> /\ contrast_scores' = <<>>
    /\ color_scores' = <<>> /\ motion_scores' = <<>> /\ composition_scores' = <<>>
    /\ person_scores' = <<>> /\ center_focus_scores' = <<>>
    /\ camera_movements' = <<>> /\ stabilization_data' = <<>> /\ focus_data' = <<>>
    /\ lighting_data' = <<>> /\ color_grading_data' = <<>> /\ exposure_data' = <<>>
    /\ framing_data' = <<>>
    /\ metrics' = ScoreMetrics
    /\ UNCHANGED prev_frame

\* segment_processor.py lines 45-66: every local of process_segment is bound
\* anew when the function is entered, prev_frame to None
EnterProcessSegment(n) ==
    /\ pc' = "loop" /\ n_frames' = n /\ i' = 0
    /\ sharpness_scores' = <<>> /\ brightness_scores' = <<>> /\ contrast_scores' = <<>>
    /\ color_scores' = <<>> /\ motion_scores' = <<>> /\ composition_scores' = <<>>
    /\ person_scores' = <<>> /\ center_focus_scores' = <<>>
    /\ camera_movements' = <<>> /\ stabilization_data' = <<>> /\ focus_data' = <<>>
    /\ lighting_data' = <<>> /\ color_grading_data' = <<>> /\ exposure_data' = <<>>
    /\ framing_data' = <<>>
    /\ metrics' = ScoreMetrics
    /\ prev_frame' = NoFrame

\* index_videos.py lines 66-68: the next segment of the video is processed
NextSegmentCall ==
    /\ pc = "done"
    /\ \E n \in 1..MaxFrames :
        /\ Len(calls) + n <= MaxFrames
        /\ EnterProcessSegment(n)
    /\ UNCHANGED <<calls, overlap_vars, movement_vars, aux_vars>>

NextCalls == VisitFrame \/ Aggregate \/ NextSegmentCall

SpecCalls == InitSegment /\ [][NextCalls]_vars

(***************************************************************************)
(* The single-frame classifiers on one frame: lighting, colour grading and *)
(* exposure, as process_segment calls them on a cinematic frame (lines 122 *)
(* to 131).  The frame is drawn from a sweep of what the exposure          *)
(* classifier reads (the mean lightness and the two clipping percentages), *)
(* or from a grid of the lighting statistics, or from a grid of the colour *)
(* statistics.                                                             *)
(***************************************************************************)
\* the histogram of L: hist[0:50], hist[200:256] and the four quarters, in
\* hundredths of the frame
DarkHist == [dark_ratio |-> 100, bright_ratio |-> 0, quarters |-> <<100, 0, 0, 0>>]

EvenHist == [dark_ratio |-> 10, bright_ratio |-> 5, quarters |-> <<30, 30, 20, 20>>]

BacklitHist == [dark_ratio |-> 31, bright_ratio |-> 55, quarters |-> <<32, 4, 4, 60>>]

BrightHist == [dark_ratio |-> 0, bright_ratio |-> 60, quarters |-> <<0, 5, 25, 70>>]

Hists == {DarkHist, EvenHist, BacklitHist, BrightHist}

\* the histogram of a frame whose lightness is l, or the two levels around l
UniformHist(l) ==
    [dark_ratio |-> IF l < 5000 THEN 100 ELSE 0,
     bright_ratio |-> IF l >= 20000 THEN 100 ELSE 0,
     quarters |-> [q \in 1..4 |-> IF (l \div 6400) + 1 = q THEN 100 ELSE 0]]

\* the least and the greatest mean a histogram with these quarters can have
QuartersLow(q) == 64 * q[2] + 128 * q[3] + 192 * q[4]

QuartersHigh(q) == 63 * q[1] + 127 * q[2] + 191 * q[3] + 255 * q[4]

\* the statistics fit one image: the mean lies where the histogram puts it and
\* the deviation is one a channel of that mean on 0..255 can have
Plausible(f) ==
    /\ QuartersLow(f.quarters) <= f.l_mean /\ f.l_mean <= QuartersHigh(f.quarters)
    /\ f.l_std * f.l_std <= f.l_mean * (25500 - f.l_mean)

SweepLightness == {100 * L : L \in 0..255} \cup {8999, 9001, 16499, 16501}

SweepClipping == {0, 499, 500, 800}

LightingMeans == {5000, 8500, 9500, 13000, 17500, 20000}

LightingDeviations == {2000, 3500, 4700, 5200, 6500}

WarmthMeans == {10000, 11400, 12500, 13200, 13600, 14300, 15000}

SaturationMeans == {0, 1, 1000, 1999, 2000, 5000, 7650, 9000, 12800, 16000, 19125}

\* the mean blue of the dark pixels and the mean red of the bright ones, or <<>>
\* when the frame has no dark or no bright pixel
TealSamples == {<<>>, <<13000, 20000>>, <<11000, 15000>>, <<13000, 13000>>}

ClassifierFrame(l, sd, b, sat, hist, teal, clipped, crushed) ==
    [l_mean |-> l, l_std |-> sd, b_mean |-> b, s_mean |-> sat,
     dark_ratio |-> hist.dark_ratio, bright_ratio |-> hist.bright_ratio,
     quarters |-> hist.quarters, teal |-> teal,
     clipped_pct |-> clipped, crushed_pct |-> crushed]

InitClassify ==
    /\ \/ \E l \in SweepLightness, clipped \in SweepClipping, crushed \in SweepClipping :
            cl_frame = ClassifierFrame(l, 0, 12800, 12800, UniformHist(l), <<>>,
                                       clipped, crushed)
       \/ \E l \in LightingMeans, sd \in LightingDeviations, b \in WarmthMeans,
             hist \in Hists :
            /\ cl_frame = ClassifierFrame(l, sd, b, 12800, hist, <<>>, 0, 0)
            /\ Plausible(cl_frame)
       \/ \E sat \in SaturationMeans, b \in WarmthMeans, teal \in TealSamples :
            cl_frame = ClassifierFrame(9500, 0, b, sat, UniformHist(9500), teal, 0, 0)
    /\ cl_out = <<>>
    /\ SegmentIdle /\ OverlapIdle /\ MovementIdle /\ ReaderIdle /\ IndexerIdle

ClassifyFrame ==
    /\ cl_out = <<>>
    /\ cl_out' = <<[lighting |-> LightingTypeMetric_calculate(cl_frame),
                    grading |-> ColorGradingMetric_calculate(cl_frame),
                    exposure |-> ExposureMetric_calculate(cl_frame)]>>
    /\ UNCHANGED <<cl_frame, segment_vars, overlap_vars, movement_vars,
                   reader_vars, indexer_vars>>

NextClassify == ClassifyFrame

SpecClassify == InitClassify /\ [][NextClassify]_vars

(***************************************************************************)
(* VideoReader.iterate_segments (src/core/video_reader.py).  Frame rates    *)
(* count hundredths of a frame per second and durations hundredths of a     *)
(* second.  A video is what get_metadata reports of it (fps, total_frames)  *)
(* and the number of frames cap.read() delivers before it fails (readable). *)
(***************************************************************************)
\* int(x) of Python for x = num / den, den > 0: truncation towards zero
Trunc(num, den) == IF num >= 0 THEN num \div den ELSE -((-num) \div den)

\* line 146: frames_per_segment = int(fps * segment_duration)
frames_per_segment(fps, segment_duration) == Trunc(fps * segment_duration, 10000)

\* range(0, stop, step) of Python for step # 0, as the sequence of its values
PyRange(stop, step) ==
    LET n == IF step > 0
             THEN IF stop > 0 THEN (stop + step - 1) \div step ELSE 0
             ELSE IF stop < 0 THEN ((-stop) + (-step) - 1) \div (-step) ELSE 0
    IN [k \in 1..n |-> (k - 1) * step]

\* read_segment, lines 81-91: the number of frames read from start_frame on
read_segment(video, start_frame, num_frames) ==
    Max(0, Min(num_frames, video.readable - start_frame))

FrameRates == {2400, 2500, 2997, 3000}
SegmentDurations == {-100, 0, 50, 100, 200}
FrameCounts == {0, 1, 12, 29, 30, 31, 45, 59, 60, 61, 75, 89, 90, 91, 120}

\* the videos: the container may announce more frames than can be decoded
Videos ==
    {[fps |-> fps, total_frames |-> total, readable |-> total - missing] :
        fps \in FrameRates, total \in FrameCounts, missing \in {0, 1, 20}}
    \cap [fps : FrameRates, total_frames : FrameCounts, readable : Nat]

InitReader ==
    /\ rd_video \in Videos
    /\ rd_duration \in SegmentDurations
    /\ rd_start = 0
    /\ rd_yielded = <<>>
    /\ rd_pc = "loop"
    /\ SegmentIdle /\ OverlapIdle /\ MovementIdle /\ ClassifyIdle /\ IndexerIdle

\* line 148 with a zero step: range() raises ValueError
RangeRaises ==
    /\ rd_pc = "loop"
    /\ frames_per_segment(rd_video.fps, rd_duration) = 0
    /\ rd_pc' = "raised"
    /\ UNCHANGED <<rd_video, rd_duration, rd_start, rd_yielded>>
    /\ UNCHANGED <<segment_vars, overlap_vars, movement_vars, classify_vars, indexer_vars>>

\* lines 148-153: one turn of the loop, for the next start_frame of the range
ReadNextSegment ==
    LET f == frames_per_segment(rd_video.fps, rd_duration)
        frames == read_segment(rd_video, rd_start, f)
    IN
    /\ rd_pc = "loop"
    /\ f # 0
    /\ IF f > 0 THEN rd_start < rd_video.total_frames - f
                ELSE rd_start > rd_video.total_frames - f
    /\ rd_yielded' = IF frames >= f \div 2
                     THEN Append(rd_yielded, [start_frame |-> rd_start, frames |-> frames])
                     ELSE rd_yielded
    /\ rd_start' = rd_start + f
    /\ UNCHANGED <<rd_video, rd_duration, rd_pc>>
    /\ UNCHANGED <<segment_vars, overlap_vars, movement_vars, classify_vars, indexer_vars>>

\* line 148: the range is exhausted and the generator returns
RangeExhausted ==
    LET f == frames_per_segment(rd_video.fps, rd_duration) IN
    /\ rd_pc = "loop"
    /\ f # 0
    /\ IF f > 0 THEN rd_start >= rd_video.total_frames - f
                ELSE rd_start <= rd_video.total_frames - f
    /\ rd_pc' = "done"
    /\ UNCHANGED <<rd_video, rd_duration, rd_start, rd_yielded>>
    /\ UNCHANGED <<segment_vars, overlap_vars, movement_vars, classify_vars, indexer_vars>>

NextReader == RangeRaises \/ ReadNextSegment \/ RangeExhausted

SpecReader == InitReader /\ [][NextReader]_vars

\* iterate_segments as a function: the segments it yields, by their start
\* frames and lengths (segment_duration such that frames_per_segment # 0)
iterate_segments(video, segment_duration) ==
    LET f == frames_per_segment(video.fps, segment_duration)
        starts == PyRange(video.total_frames - f, f)
        kept == {k \in DOMAIN starts : read_segment(video, starts[k], f) >= f \div 2}
        Pack[k \in 0..Len(starts)] ==
            IF k = 0 THEN <<>>
            ELSE IF k \in kept
                 THEN Append(Pack[k - 1],
                             [start_frame |-> starts[k],
                              frames |-> read_segment(video, starts[k], f)])
                 ELSE Pack[k - 1]
    IN Pack[Len(starts)]

(***************************************************************************)
(* An indexing run (src/index_videos.py): main, or a VideoIndexer built     *)
(* directly, then index_folder over the videos find_videos returns.  A      *)
(* video file is named by its position in that list.  Besides what the      *)
(* reader sees of it, a video says how opening it ends (open) and whether   *)
(* reading or processing one of its segments raises (raises), with a        *)
(* message or with none, as MemoryError() has none.                         *)
(***************************************************************************)
MaxVideos == 3

VideoFile(open, fps, total, readable, raises) ==
    [open |-> open, fps |-> fps, total_frames |-> total, readable |-> readable, raises |-> raises]

FolderVideos ==
    {VideoFile("ok", 3000, 90, 90, "none"),
     VideoFile("ok", 2500, 60, 59, "none"),
     VideoFile("ok", 2997, 90, 90, "none"),
     VideoFile("missing", 0, 0, 0, "none"),
     VideoFile("unopenable", 0, 0, 0, "none"),
     VideoFile("ok", 3000, 90, 90, "message"),
     VideoFile("ok", 3000, 90, 90, "empty")}

\* the values of --segment-duration, in hundredths of a second
IndexerDurations == {-100, 0, 100, 200}

\* VideoMetadata.to_dict; error is <<>> for None and <<text>> for a string
VideoMetadata_to_dict(segment_count, file_path, indexed, error) ==
    IF error # <<>> /\ error[1] # ""
    THEN [segment_count |-> segment_count, file_path |-> file_path,
          indexed |-> indexed, error |-> error[1]]
    ELSE [segment_count |-> segment_count, file_path |-> file_path, indexed |-> indexed]

\* index_video, lines 70-81: the VideoSegment made of a yielded start_frame.
\* The times of a video count ticks of 1 / (10000 * fps) second, fps being
\* that of the video, so that start_frame / fps is 10000 * start_frame ticks
\* and segment_duration is fps * segment_duration ticks (both in hundredths).
VideoSegmentAt(idx, video, start_frame, segment_duration) ==
    LET start_time == 10000 * start_frame
        end_time == start_time + video.fps * segment_duration
    IN  [video_file |-> idx, start_frame |-> start_frame, start_time |-> start_time,
         end_time |-> end_time, duration |-> video.fps * segment_duration]

\* index_video on the video at position idx: what it returns, or the str() of
\* what it raises, and whether the VideoCapture of _validate_video was opened
index_video(idx, video, segment_duration) ==
    LET f == frames_per_segment(video.fps, segment_duration) IN
    IF video.open = "missing"
    THEN [outcome |-> "raised", error |-> "Video file not found", opened |-> FALSE]
    ELSE IF video.open = "unopenable"
    THEN [outcome |-> "raised", error |-> "Cannot open video file", opened |-> FALSE]
    ELSE IF f = 0
    THEN [outcome |-> "raised", error |-> "range() arg 3 must not be zero", opened |-> TRUE]
    ELSE IF PyRange(video.total_frames - f, f) # <<>> /\ video.raises # "none"
    THEN [outcome |-> "raised",
          error |-> IF video.raises = "empty" THEN "" ELSE "error in a segment",
          opened |-> TRUE]
    ELSE LET yielded == iterate_segments(video, segment_duration) IN
         [outcome |-> "returned",
          segments |-> [k \in DOMAIN yielded |->
                           VideoSegmentAt(idx, video, yielded[k].start_frame,
                                          segment_duration)],
          opened |-> TRUE]

InitIndexer ==
    /\ ix_entry \in {"main", "VideoIndexer"}
    /\ ix_duration \in IndexerDurations
    /\ \E n \in 0..MaxVideos : ix_videos \in [1..n -> FolderVideos]
    /\ ix_idx = 0
    /\ ix_opened = {}
    /\ ix_metadata = <<>>
    /\ ix_segments = <<>>
    /\ ix_file = <<>>
    /\ ix_pc = "start"
    /\ SegmentIdle /\ OverlapIdle /\ MovementIdle /\ ClassifyIdle /\ ReaderIdle

\* main, lines 247-270, for an input folder that exists: parser.error leaves
\* the program, otherwise the indexer is built and index_folder entered
main ==
    /\ ix_pc = "start" /\ ix_entry = "main"
    /\ ix_pc' = IF ix_duration <= 0 THEN "rejected" ELSE "index_folder"
    /\ UNCHANGED <<ix_entry, ix_duration, ix_videos, ix_idx, ix_opened, ix_metadata,
                   ix_segments, ix_file>>
    /\ UNCHANGED <<segment_vars, overlap_vars, movement_vars, classify_vars, reader_vars>>

\* VideoIndexer.__init__, lines 31-39, called by a program other than main:
\* segment_duration is stored as given
VideoIndexer_init ==
    /\ ix_pc = "start" /\ ix_entry = "VideoIndexer"
    /\ ix_pc' = "index_folder"
    /\ UNCHANGED <<ix_entry, ix_duration, ix_videos, ix_idx, ix_opened, ix_metadata,
                   ix_segments, ix_file>>
    /\ UNCHANGED <<segment_vars, overlap_vars, movement_vars, classify_vars, reader_vars>>

\* index_folder, lines 105-109: no video file in the folder
NoVideoFiles ==
    /\ ix_pc = "index_folder" /\ ix_videos = <<>>
    /\ ix_pc' = "returned"
    /\ UNCHANGED <<ix_entry, ix_duration, ix_videos, ix_idx, ix_opened, ix_metadata,
                   ix_segments, ix_file>>
    /\ UNCHANGED <<segment_vars, overlap_vars, movement_vars, classify_vars, reader_vars>>

\* index_folder, lines 118-142: one turn of the loop over video_files
IndexNextVideo ==
    /\ ix_pc = "index_folder" /\ ix_idx < Len(ix_videos)
    /\ LET idx == ix_idx + 1
           result == index_video(idx, ix_videos[idx], ix_duration)
       IN
       /\ ix_idx' = idx
       /\ ix_opened' = IF result.opened THEN ix_opened \cup {idx} ELSE ix_opened
       /\ IF result.outcome = "returned"
          THEN /\ ix_segments' = ix_segments \o result.segments
               /\ ix_metadata' =
                      Append(ix_metadata,
                             VideoMetadata_to_dict(Len(result.segments), idx, TRUE, <<>>))
          ELSE /\ ix_segments' = ix_segments
               /\ ix_metadata' =
                      Append(ix_metadata,
                             VideoMetadata_to_dict(0, idx, FALSE, <<result.error>>))
    /\ UNCHANGED <<ix_entry, ix_duration, ix_videos, ix_file, ix_pc>>
    /\ UNCHANGED <<segment_vars, overlap_vars, movement_vars, classify_vars, reader_vars>>

\* SaveIndex with indexed_videos counting every file
SaveIndexCountingFiles ==
    /\ ix_pc = "index_folder" /\ ix_videos # <<>> /\ ix_idx = Len(ix_videos)
    /\ ix_file' = <<[segment_duration |-> ix_duration,
                     total_segments |-> Len(ix_segments),
                     total_videos |-> Len(ix_videos),
                     indexed_videos |-> Len(ix_videos),
                     videos |-> ix_metadata,
                     segments |-> ix_segments]>>
    /\ ix_pc' = "saved"
    /\ UNCHANGED <<ix_entry, ix_duration, ix_videos, ix_idx, ix_opened, ix_metadata,
                   ix_segments>>
    /\ UNCHANGED <<segment_vars, overlap_vars, movement_vars, classify_vars, reader_vars>>

\* index_folder, lines 144-167, and _save_index: the index is written
SaveIndex ==
    /\ ix_pc = "index_folder" /\ ix_videos # <<>> /\ ix_idx = Len(ix_videos)
    /\ ix_file' = <<[segment_duration |-> ix_duration,
                     total_segments |-> Len(ix_segments),
                     total_videos |-> Len(ix_videos),
                     indexed_videos |->
                         Cardinality({k \in DOMAIN ix_metadata : ix_metadata[k].indexed}),
                     videos |-> ix_metadata,
                     segments |-> ix_segments]>>
    /\ ix_pc' = "saved"
    /\ UNCHANGED <<ix_entry, ix_duration, ix_videos, ix_idx, ix_opened, ix_metadata,
                   ix_segments>>
    /\ UNCHANGED <<segment_vars, overlap_vars, movement_vars, classify_vars, reader_vars>>

NextIndexer == main \/ VideoIndexer_init \/ NoVideoFiles \/ IndexNextVideo \/ SaveIndex

SpecIndexer == InitIndexer /\ [][NextIndexer]_vars

(***************************************************************************)
(* ShotFramingMetric.calculate on one frame: the frame is w x h, and what   *)
(* cv2.findContours and cv2.boundingRect give is either no contour or the   *)
(* bounding box of the largest one, which lies inside the frame.            *)
(***************************************************************************)
FrameSizes == {<<20, 10>>, <<16, 12>>}

\* the frames: every box size, the box in a corner of the frame
FramingFrames ==
    {[w |-> size[1], h |-> size[2], contour |-> <<>>, horizon_y |-> 0] : size \in FrameSizes}
    \cup
    UNION {UNION {{[w |-> size[1], h |-> size[2], horizon_y |-> horizon_y,
                    contour |-> <<[x |-> x, y |-> y, cw |-> cw, ch |-> ch]>>] :
                      x \in {0, size[1] - cw}, y \in {0, size[2] - ch},
                      horizon_y \in {0, size[2] \div 3}} :
                  cw \in 1..size[1], ch \in 1..size[2]} :
           size \in FrameSizes}

InitFraming ==
    /\ cl_frame \in FramingFrames
    /\ cl_out = <<>>
    /\ SegmentIdle /\ OverlapIdle /\ MovementIdle /\ ReaderIdle /\ IndexerIdle

\* a call of ShotFramingMetric.calculate
CallShotFraming ==
    /\ cl_out = <<>>
    /\ cl_out' = <<ShotFramingMetric_calculate(cl_frame)>>
    /\ UNCHANGED <<cl_frame, segment_vars, overlap_vars, movement_vars, reader_vars,
                   indexer_vars>>

NextFraming == CallShotFraming

SpecFraming == InitFraming /\ [][NextFraming]_vars

(***************************************************************************)
(* StabilizationMetric.calculate on one pair of frames: what is measured is *)
(* the number of corners found in prev_frame, whether the tracker returned  *)
(* anything, the number of corners tracked, and the mean over x and y of    *)
(* the standard deviation of their motion, in hundredths of a pixel.        *)
(***************************************************************************)
CornerCounts == {0, 19, 20, 300}

MotionDeviations == 0..60 \cup {150, 1000}

StabilizationInputs ==
    {in \in [has_prev : BOOLEAN,
             stab : [corners : CornerCounts, tracked : BOOLEAN, good : CornerCounts,
                     motion_std : MotionDeviations]] :
        /\ in.stab.good <= in.stab.corners
        /\ ~in.stab.tracked => in.stab.good = 0 /\ in.stab.motion_std = 0
        /\ in.stab.good = 0 => in.stab.motion_std = 0
        /\ ~in.has_prev => in.stab.corners = 0 /\ ~in.stab.tracked}

InitStabilization ==
    /\ cl_frame \in StabilizationInputs
    /\ cl_out = <<>>
    /\ SegmentIdle /\ OverlapIdle /\ MovementIdle /\ ReaderIdle /\ IndexerIdle

\* a call of StabilizationMetric.calculate
CallStabilization ==
    /\ cl_out = <<>>
    /\ cl_out' = <<StabilizationMetric_calculate(cl_frame.has_prev, cl_frame.stab)>>
    /\ UNCHANGED <<cl_frame, segment_vars, overlap_vars, movement_vars, reader_vars,
                   indexer_vars>>

NextStabilization == CallStabilization

SpecStabilization == InitStabilization /\ [][NextStabilization]_vars

(***************************************************************************)
(* Properties                                                              *)
(***************************************************************************)
\* r is the rational v / k
RatIs(r, v, k) == r.num * k = v * r.den

\* 0.0 <= r <= 1.0 (r counts hundredths)
In01(r) == 0 <= r.num /\ r.num <= 100 * r.den

\* the label of maximal count that occurs first in xs
FirstMode(xs) ==
    xs[CHOOSE k \in DOMAIN xs :
         /\ xs[k] \in {x \in Range(xs) : \A y \in Range(xs) : Count(xs, x) >= Count(xs, y)}
         /\ \A j \in 1..(k - 1) :
              \E y \in Range(xs) : Count(xs, y) > Count(xs, xs[j])]

\* the categorical fields with the list and the key each is the mode of
ModeFieldIs(field, data, key) == data # <<>> => metrics[field] = FirstMode(Column(data, key))

\* C1: every aggregated categorical field is the most frequent label of its
\* list, and on a tie the label that occurs first in the list: [A, B, A, B]
\* aggregates to A.
C1_ModeTieFirstInList ==
    pc = "done" =>
        /\ ModeFieldIs("camera_movement_type", camera_movements, "movement_type")
        /\ ModeFieldIs("stabilization_type", stabilization_data, "stabilization_type")
        /\ ModeFieldIs("lighting_type", lighting_data, "dominant_type")
        /\ ModeFieldIs("color_grading_style", color_grading_data, "dominant_profile")
        /\ ModeFieldIs("exposure_quality", exposure_data, "exposure_class")
        /\ ModeFieldIs("shot_framing_type", framing_data, "shot_size")

\* C3: exposure_is_well_exposed is true only if every sampled frame was well
\* exposed; one sampled frame that was not forces it to false, wherever it is
\* in the list.
C3_WellExposedOnlyIfAll ==
    pc = "done" =>
        \A k \in DOMAIN exposure_data :
            ~exposure_data[k].is_well_exposed => ~metrics.exposure_is_well_exposed

\* a segment of three exposure samples of which only the middle one is not well
\* exposed, reported as not well exposed
C3_Witness ==
    /\ pc = "done"
    /\ Len(exposure_data) = 3
    /\ exposure_data[1].is_well_exposed
    /\ ~exposure_data[2].is_well_exposed
    /\ exposure_data[3].is_well_exposed
    /\ ~metrics.exposure_is_well_exposed

\* C4: focus_has_change, focus_has_bokeh and lighting_is_dramatic are true when
\* at least one sampled frame produced true, whatever the others produced, and
\* false when none did.
C4_AnyFlags ==
    pc = "done" =>
        /\ metrics.focus_has_change
             <=> (\E k \in DOMAIN focus_data : focus_data[k].has_focus_change)
        /\ metrics.focus_has_bokeh
             <=> (\E k \in DOMAIN focus_data : focus_data[k].has_shallow_dof)
        /\ metrics.lighting_is_dramatic
             <=> (\E k \in DOMAIN lighting_data : lighting_data[k].is_dramatic)

\* three focus samples of which only the first saw a focus change: the segment
\* has a focus change
C4_Witness ==
    /\ pc = "done"
    /\ Len(focus_data) = 3
    /\ focus_data[1].has_focus_change
    /\ ~focus_data[2].has_focus_change
    /\ ~focus_data[3].has_focus_change
    /\ metrics.focus_has_change

\* C6: a list of one judgment aggregates to that judgment's own values: the
\* mean, the mode, any and all of one element are the element.
C6_SingleElement ==
    pc = "done" =>
        /\ Len(sharpness_scores) = 1 =>
            /\ RatIs(metrics.sharpness, sharpness_scores[1], 1)
            /\ RatIs(metrics.brightness, brightness_scores[1], 1)
            /\ RatIs(metrics.contrast, contrast_scores[1], 1)
            /\ RatIs(metrics.color_vibrancy, color_scores[1], 1)
            /\ RatIs(metrics.composition_score, composition_scores[1], 1)
        /\ Len(motion_scores) = 1 => RatIs(metrics.motion_score, motion_scores[1], 1)
        /\ Len(person_scores) = 1 =>
            /\ RatIs(metrics.person_score, person_scores[1], 1)
            /\ RatIs(metrics.center_focus_score, center_focus_scores[1], 1)
        /\ Len(camera_movements) = 1 =>
            LET d == camera_movements[1] IN
            /\ metrics.camera_movement_type = d.movement_type
            /\ RatIs(metrics.camera_movement_quality, d.cinematic_quality, 100)
            /\ RatIs(metrics.camera_movement_smoothness, d.smoothness, 100)
            /\ RatIs(metrics.camera_movement_confidence, d.confidence, 100)
        /\ Len(stabilization_data) = 1 =>
            LET d == stabilization_data[1] IN
            /\ metrics.stabilization_type = d.stabilization_type
            /\ RatIs(metrics.stabilization_score, d.stabilization_score, 1)
        /\ Len(focus_data) = 1 =>
            LET d == focus_data[1] IN
            /\ metrics.focus_has_change = d.has_focus_change
            /\ RatIs(metrics.focus_change_amount, d.focus_change_amount, 1)
            /\ RatIs(metrics.focus_sharpness, d.current_sharpness, 1)
            /\ metrics.focus_has_bokeh = d.has_shallow_dof
        /\ Len(lighting_data) = 1 =>
            LET d == lighting_data[1] IN
            /\ metrics.lighting_type = d.dominant_type
            /\ RatIs(metrics.lighting_quality, d.quality_score, 1)
            /\ metrics.lighting_is_dramatic = d.is_dramatic
        /\ Len(color_grading_data) = 1 =>
            LET d == color_grading_data[1] IN
            /\ metrics.color_grading_style = d.dominant_profile
            /\ RatIs(metrics.color_grading_strength, d.grading_strength, 1)
            /\ RatIs(metrics.color_saturation, d.saturation_level, 1)
            /\ RatIs(metrics.color_warmth, d.warmth_level, 1)
        /\ Len(exposure_data) = 1 =>
            LET d == exposure_data[1] IN
            /\ metrics.exposure_quality = d.exposure_class
            /\ RatIs(metrics.exposure_score, d.exposure_quality, 1)
            /\ metrics.exposure_is_well_exposed = d.is_well_exposed
        /\ Len(framing_data) = 1 =>
            LET d == framing_data[1] IN
            /\ metrics.shot_framing_type = d.shot_size
            /\ RatIs(metrics.shot_composition_score, d.composition_score, 1)
            /\ metrics.shot_follows_rule_of_thirds = d.follows_rule_of_thirds

\* one exposure sample, overexposed and not well exposed, aggregated to an
\* overexposed segment that is not well exposed
C6_Witness ==
    /\ pc = "done"
    /\ Len(exposure_data) = 1
    /\ exposure_data[1].exposure_class = "overexposed"
    /\ metrics.exposure_quality = "overexposed"
    /\ ~metrics.exposure_is_well_exposed
    /\ metrics.exposure_score.num > 0

\* C7: for two segments of one video, overlaps_with holds iff
\* not (endA <= startB or startA >= endB); for segments of different videos it
\* is false, whatever their times.
C7_OverlapsWith ==
    overlap_result # <<>> =>
        IF seg_a.video_file = seg_b.video_file
        THEN overlap_result[1] <=>
                ~(seg_a.end_time <= seg_b.start_time \/ seg_a.start_time >= seg_b.end_time)
        ELSE overlap_result[1] = FALSE

\* two segments of one video that only touch (A ends where B starts) do not overlap
C7_Witness ==
    /\ overlap_result = <<FALSE>>
    /\ seg_a.video_file = seg_b.video_file
    /\ seg_a.start_time < seg_a.end_time
    /\ seg_a.end_time = seg_b.start_time
    /\ seg_b.start_time < seg_b.end_time

\* the conditions of the rules of the cascade, on the arguments of _classify_movement
HandheldRule == 2 * mv_in.flow.std_mag > 3 * mv_in.flow.mean_mag /\ mv_in.flow.mean_mag > 30

RotationRule == mv_in.track.status = "ok" /\ Abs(mv_in.track.rotation_angle) > 80

ZoomRule ==
    \/ mv_in.track.status = "ok" /\ Abs(mv_in.track.scale_factor - 100) > 1
    \/ Abs(mv_in.flow.median_radial) > 15

PanRule == mv_in.track.status = "ok" /\ Abs(mv_in.track.translation_x) > 80

TiltRule == mv_in.track.status = "ok" /\ Abs(mv_in.track.translation_y) > 80

ComplexRule == mv_in.flow.mean_mag > 30

\* C10: the camera-movement classifier is a cascade in the order Handheld,
\* Rotation, Zoom/Dolly, Pan, Tilt, Complex, Static: the label is that of the
\* first rule whose condition holds; signals over both the zoom and the pan
\* threshold (and under the handheld and rotation ones) give Zoom or Dolly.
C10_MovementCascade ==
    (mv_out # <<>> /\ mv_in.has_prev) =>
        mv_out.movement_type \in
            IF HandheldRule THEN {"Handheld/Shake"}
            ELSE IF RotationRule THEN {"Rotation CW", "Rotation CCW"}
            ELSE IF ZoomRule THEN {"Zoom In", "Zoom Out", "Dolly In", "Dolly Out"}
            ELSE IF PanRule THEN {"Pan Left", "Pan Right"}
            ELSE IF TiltRule THEN {"Tilt Up", "Tilt Down"}
            ELSE IF ComplexRule THEN {"Complex Movement"}
            ELSE {"Static"}

\* signals over the zoom and the pan thresholds, under the handheld and rotation
\* ones, classified as a zoom or a dolly
C10_Witness ==
    /\ mv_out # <<>> /\ mv_in.has_prev
    /\ ~HandheldRule /\ ~RotationRule /\ ZoomRule /\ PanRule
    /\ mv_out.movement_type \in {"Zoom In", "Zoom Out", "Dolly In", "Dolly Out"}

\* C2: every numeric field of the ScoreMetrics that process_segment returns
\* lies in [0.0, 1.0], whatever the frames and the classifiers' outputs.
C2_AllNumericIn01 ==
    pc = "done" => \A f \in NumericFields : In01(metrics[f])

\* the number of frames visited on which every list of the group grew by one
Produced(group) == Cardinality({k \in DOMAIN calls : calls[k][group] = {1}})

\* the eight continuous basic scores: <<field, per-frame values, default, group>>
BasicScores ==
    {<<"sharpness", sharpness_scores, 0, "basic">>,
     <<"brightness", brightness_scores, 0, "basic">>,
     <<"contrast", contrast_scores, 0, "basic">>,
     <<"color_vibrancy", color_scores, 0, "basic">>,
     <<"composition_score", composition_scores, 0, "basic">>,
     <<"motion_score", motion_scores, 0, "motion">>,
     <<"person_score", person_scores, 50, "person">>,
     <<"center_focus_score", center_focus_scores, 50, "person">>}

\* C5: each continuous segment score is the arithmetic mean of exactly the
\* values produced for it on the frames of the segment, one per frame on which
\* it was computed; with no value it is 0.0 (sharpness, brightness, contrast,
\* color_vibrancy, motion_score, composition_score) or 0.5 (person_score,
\* center_focus_score); the ScoreMetrics returned has every field, for an
\* empty frame list too.
C5_MeansAndDefaults ==
    pc = "done" =>
        /\ DOMAIN metrics = DOMAIN ScoreMetrics
        /\ \A t \in BasicScores :
              /\ Len(t[2]) = Produced(t[4])
              /\ IF t[2] = <<>>
                 THEN RatIs(metrics[t[1]], t[3], 1)
                 ELSE RatIs(metrics[t[1]], SeqSum(t[2]), Len(t[2]))

C5_Witness ==
    /\ pc = "done"
    /\ Len(sharpness_scores) = 4 /\ sharpness_scores[1] # sharpness_scores[4]
    /\ Len(person_scores) = 2 /\ person_scores[1] # person_scores[2]
    /\ Len(motion_scores) = 3 /\ motion_scores[1] # motion_scores[3]

\* C8: the basic metrics (sharpness, brightness, contrast, vibrancy,
\* composition) are computed on frame i iff i % 3 = 0, person detection on
\* frame i iff i % 6 = 0, hence only on frames where the basic metrics are.
C8_SamplingTiers ==
    /\ Len(calls) = i
    /\ \A k \in DOMAIN calls :
          /\ calls[k].basic = (IF (k - 1) % 3 = 0 THEN {1} ELSE {0})
          /\ calls[k].person = (IF (k - 1) % 6 = 0 THEN {1} ELSE {0})
          /\ calls[k].person = {1} => calls[k].basic = {1}

C8_Witness ==
    /\ Len(calls) >= 10
    /\ calls[7].person = {1}
    /\ calls[10].basic = {1} /\ calls[10].person = {0}
    /\ calls[9].basic = {0}

\* C9: the frames are visited in index order; motion is scored on every frame
\* with i % 3 = 0 but the first; the seven cinematic classifiers run, all
\* together, exactly on the frames with i % 6 = 0 for which a previous frame is
\* retained; the previous frame used is frame i - 3.
C9_OrderMotionCinematic ==
    \A k \in DOMAIN calls :
        LET c == calls[k] IN
        /\ c.frame = k - 1
        /\ c.motion = (IF c.frame % 3 = 0 /\ c.frame # 0 THEN {1} ELSE {0})
        /\ c.cinematic = (IF c.frame % 6 = 0 /\ c.prev # -1 THEN {1} ELSE {0})
        /\ c.prev # -1 <=> c.frame > 0
        /\ (c.motion = {1} \/ c.cinematic = {1}) => c.prev = c.frame - 3

C9_Witness ==
    /\ Len(calls) >= 10
    /\ calls[7].cinematic = {1} /\ calls[7].prev = 3
    /\ calls[10].motion = {1} /\ calls[10].cinematic = {0} /\ calls[10].prev = 6
    /\ calls[1].cinematic = {0} /\ calls[1].motion = {0}

\* C11: a frame of mean lightness L is underexposed iff L < 90, properly
\* exposed iff 90 <= L <= 165 and overexposed iff L > 165, the boundary values
\* 90 and 165 included.
C11_ExposureClasses ==
    cl_out # <<>> =>
        LET l == cl_frame.l_mean
            class == cl_out[1].exposure.exposure_class
        IN  /\ class = "underexposed" <=> l < 9000
            /\ class = "properly_exposed" <=> (9000 <= l /\ l <= 16500)
            /\ class = "overexposed" <=> l > 16500

\* C20: a frame is reported well exposed iff its class is properly_exposed and
\* the clipped-highlight and the crushed-shadow percentages are both under 5;
\* no underexposed or overexposed frame is well exposed.
C20_WellExposed ==
    cl_out # <<>> =>
        LET e == cl_out[1].exposure
        IN  /\ e.is_well_exposed <=>
                   /\ e.exposure_class = "properly_exposed"
                   /\ cl_frame.clipped_pct < 500
                   /\ cl_frame.crushed_pct < 500
            /\ e.exposure_class \in {"underexposed", "overexposed"} => ~e.is_well_exposed

C20_Witness ==
    /\ cl_out # <<>>
    /\ cl_out[1].exposure.exposure_class = "properly_exposed"
    /\ cl_frame.clipped_pct = 500 /\ cl_frame.crushed_pct = 0
    /\ ~cl_out[1].exposure.is_well_exposed

\* the confidences recorded for a frame, in the order the predicates are
\* evaluated; the default alone when none fired
Recorded(fired, default) == IF fired = <<>> THEN <<(<<default, 5000>>)>> ELSE fired

\* label, with the strength reported, is the first entry of greatest confidence
IsFirstMaximum(scores, label, strength) ==
    \E k \in DOMAIN scores :
        /\ scores[k][1] = label
        /\ \A j \in DOMAIN scores : scores[j][2] <= scores[k][2]
        /\ \A j \in DOMAIN scores : j < k => scores[j][2] # scores[k][2]
        /\ strength = scores[k][2] \div 100

\* C18: in the lighting and the colour-grading classifier the dominant label
\* has the greatest confidence recorded for the frame; among several of that
\* confidence the one whose predicate is evaluated first wins; the quality
\* (strength) is that confidence divided by 100.
C18_DominantIsFirstMaximum ==
    cl_out # <<>> =>
        /\ IsFirstMaximum(Recorded(LightingConfidence(cl_frame), "unknown"),
                          cl_out[1].lighting.dominant_type,
                          cl_out[1].lighting.quality_score)
        /\ IsFirstMaximum(Recorded(GradingConfidence(cl_frame), "neutral"),
                          cl_out[1].grading.dominant_profile,
                          cl_out[1].grading.grading_strength)

\* golden_hour and natural both at 75: golden_hour, evaluated first, wins
C18_Witness ==
    /\ cl_out # <<>>
    /\ LET scores == LightingConfidence(cl_frame)
       IN  /\ Len(scores) >= 2
           /\ scores[1] = <<"golden_hour", 7500>>
           /\ scores[2] = <<"natural", 7500>>
           /\ \A j \in DOMAIN scores : scores[j][2] <= 7500
    /\ cl_out[1].lighting.dominant_type = "golden_hour"

\* C19: in the lighting and the colour-grading classifier the default label
\* (unknown, neutral) is emitted iff no predicate fires, and then with
\* confidence 50 (quality 0.5); when a predicate fires the dominant label is a
\* fired one.
C19_DefaultIffNoneFires ==
    cl_out # <<>> =>
        LET lit == LightingConfidence(cl_frame)
            graded == GradingConfidence(cl_frame)
        IN  /\ cl_out[1].lighting.dominant_type = "unknown" <=> lit = <<>>
            /\ lit = <<>> => cl_out[1].lighting.quality_score = 50
            /\ lit # <<>> =>
                  \E k \in DOMAIN lit : lit[k][1] = cl_out[1].lighting.dominant_type
            /\ cl_out[1].grading.dominant_profile = "neutral" <=> graded = <<>>
            /\ graded = <<>> => cl_out[1].grading.grading_strength = 50
            /\ graded # <<>> =>
                  \E k \in DOMAIN graded : graded[k][1] = cl_out[1].grading.dominant_profile

\* nothing fires in one classifier while the other's one fired label is weaker
\* than the default would be
C19_Witness ==
    /\ cl_out # <<>>
    /\ GradingConfidence(cl_frame) # <<>>
    /\ cl_out[1].grading.grading_strength < 50
    /\ cl_out[1].grading.dominant_profile = "warm"
    /\ LightingConfidence(cl_frame) = <<>>
    /\ cl_out[1].lighting = [dominant_type |-> "unknown", quality_score |-> 50,
                             is_dramatic |-> FALSE]

\* the frame as it would be had the person detector found nothing
NothingFound(frame) == [frame EXCEPT !.person.status = "none"]

\* C13: a detector call that raises gives the aggregator the same per-frame
\* values as the call that finds nothing.  (After a frame with i % 6 = 0 the
\* last person and centre-focus scores are those of prev_frame.)
C13_FailureAsAbsence ==
    (/\ prev_frame # NoFrame
     /\ prev_frame.idx % 6 = 0
     /\ prev_frame.image.person.status = "error")
    => <<person_scores[Len(person_scores)],
         center_focus_scores[Len(center_focus_scores)]>>
           = PersonDetectionMetric_calculate(NothingFound(prev_frame.image))

\* C17: for a segment of 30 black frames (zero optical flow, no trackable
\* corner, mean lightness 0) process_segment returns brightness 0,
\* motion_score 0.0, camera_movement_type Static, stabilization_type unknown
\* and exposure_quality underexposed.
C17_BlackSegment ==
    (pc = "done" /\ n_frames = 30) =>
        /\ RatIs(metrics.brightness, 0, 1)
        /\ RatIs(metrics.motion_score, 0, 1)
        /\ metrics.camera_movement_type = "Static"
        /\ metrics.stabilization_type = "unknown"
        /\ metrics.exposure_quality = "underexposed"

C17_Witness ==
    /\ pc = "done" /\ n_frames = 30
    /\ Len(brightness_scores) = 10 /\ Len(motion_scores) = 9
    /\ Len(camera_movements) = 4 /\ Len(exposure_data) = 4
    /\ metrics.exposure_quality = "underexposed"

\* the number of frames k < n with k % step = 0
Sampled(n, step) == (n + step - 1) \div step

ReaderLoopIsFunction ==
    rd_pc = "done" => rd_yielded = iterate_segments(rd_video, rd_duration)

\* C15: every window of frames_per_segment frames that starts at a multiple of
\* frames_per_segment and lies entirely inside the video is yielded, so that a
\* video of k * frames_per_segment frames yields k segments.
C15_FullWindowsYielded ==
    LET f == frames_per_segment(rd_video.fps, rd_duration) IN
    (rd_pc = "done" /\ f > 0 /\ rd_video.readable = rd_video.total_frames) =>
        /\ \A j \in 0..rd_video.total_frames :
               (j + 1) * f <= rd_video.total_frames =>
                   \E k \in DOMAIN rd_yielded :
                       /\ rd_yielded[k].start_frame = j * f
                       /\ rd_yielded[k].frames = f
        /\ rd_video.total_frames % f = 0 =>
               Len(rd_yielded) = rd_video.total_frames \div f

\* the video at position k of the run fails: index_video raises on it
Fails(k) == index_video(k, ix_videos[k], ix_duration).outcome = "raised"

\* a failure never aborts the run: one entry per video visited, in order, the
\* entry of a failed video with indexed false and no segment, and the index
\* written with an entry for every video
RunSurvivesFailures ==
    /\ Len(ix_metadata) = ix_idx
    /\ \A k \in DOMAIN ix_metadata :
           /\ ix_metadata[k].file_path = k
           /\ ix_metadata[k].indexed = ~Fails(k)
           /\ Fails(k) => ix_metadata[k].segment_count = 0
    /\ ix_pc = "saved" =>
           /\ Len(ix_metadata) = Len(ix_videos)
           /\ ix_file[1].videos = ix_metadata

\* C12: the failure of one video never aborts the run: every video gets
\* exactly one entry, the entry of a failed video has indexed false, segment
\* count 0 and an error string, and the videos after it are still processed.
C12_FailedVideoIsRecorded ==
    /\ RunSurvivesFailures
    /\ \A k \in DOMAIN ix_metadata :
           Fails(k) => "error" \in DOMAIN ix_metadata[k]

MainRejectsNonPositive ==
    (ix_entry = "main" /\ ix_duration <= 0) =>
        /\ ix_pc \in {"start", "rejected"}
        /\ ix_opened = {} /\ ix_metadata = <<>> /\ ix_file = <<>>

\* the bounding box of the frame judged, and whether its area is more than
\* pct hundredths of the frame's
SubjectBox == cl_frame.contour[1]

RatioAbove(pct) == 100 * SubjectBox.cw * SubjectBox.ch > pct * cl_frame.w * cl_frame.h

\* the override of the shot size: a large box that is narrow and low
InsertCondition ==
    /\ RatioAbove(40)
    /\ 10 * SubjectBox.cw < 6 * cl_frame.w
    /\ 10 * SubjectBox.ch < 6 * cl_frame.h

\* C21: with a subject box the shot size is extreme_close_up above a ratio of
\* 0.6, close_up above 0.35, medium above 0.15, wide above 0.05 and
\* extreme_wide otherwise, but insert for a box of ratio above 0.4 whose
\* width and height are each under 60% of the frame's; with no contour the
\* shot size is unknown and the composition score 0.5.
C21_ShotSizes ==
    cl_out # <<>> =>
        IF cl_frame.contour = <<>>
        THEN cl_out[1].shot_size = "unknown" /\ cl_out[1].composition_score = 50
        ELSE cl_out[1].shot_size =
                 (IF InsertCondition THEN "insert"
                  ELSE IF RatioAbove(60) THEN "extreme_close_up"
                  ELSE IF RatioAbove(35) THEN "close_up"
                  ELSE IF RatioAbove(15) THEN "medium"
                  ELSE IF RatioAbove(5) THEN "wide"
                  ELSE "extreme_wide")

\* a box of exactly 0.6 of the frame has been classified close_up
C21_Witness ==
    /\ cl_out # <<>> /\ cl_frame.contour # <<>>
    /\ 100 * SubjectBox.cw * SubjectBox.ch = 60 * cl_frame.w * cl_frame.h
    /\ cl_out[1].shot_size = "close_up"

ConsistencyAtLeast(pct) == 100 * 100 >= pct * (100 + cl_frame.stab.motion_std)

\* C22: the stabilization type is tripod for a motion consistency of at
\* least 0.95, gimbal from 0.85, handheld_stabilized from 0.70 and
\* handheld_unstabilized below; without a previous frame or with fewer than
\* 20 corners found or tracked it is unknown with score 0.5.
C22_StabilizationClasses ==
    cl_out # <<>> =>
        IF \/ ~cl_frame.has_prev
           \/ cl_frame.stab.corners < 20
           \/ ~cl_frame.stab.tracked
           \/ cl_frame.stab.good < 20
        THEN cl_out[1] = [stabilization_type |-> "unknown", stabilization_score |-> 50]
        ELSE /\ cl_out[1].stabilization_type =
                    (IF ConsistencyAtLeast(95) THEN "tripod"
                     ELSE IF ConsistencyAtLeast(85) THEN "gimbal"
                     ELSE IF ConsistencyAtLeast(70) THEN "handheld_stabilized"
                     ELSE "handheld_unstabilized")
             /\ cl_out[1].stabilization_type = "tripod" <=>
                    cl_out[1].stabilization_score >= 95
             /\ cl_out[1].stabilization_score \in 0..100

\* 300 corners were found and only 19 of them tracked: unknown, although the
\* motion of the 19 is consistent
C22_Witness ==
    /\ cl_out # <<>> /\ cl_frame.has_prev
    /\ cl_frame.stab.corners = 300 /\ cl_frame.stab.good = 19
    /\ cl_frame.stab.motion_std = 5
    /\ cl_out[1].stabilization_type = "unknown"

\* the cinematic quality _classify_movement gives a label before the bonus
LabelQuality(movement_type) ==
    CASE movement_type \in {"Rotation CCW", "Rotation CW", "Pan Right", "Pan Left"} -> 7500
      [] movement_type = "Zoom In" -> 8500
      [] movement_type = "Dolly In" -> 9000
      [] movement_type \in {"Zoom Out", "Tilt Down", "Tilt Up"} -> 7000
      [] movement_type = "Dolly Out" -> 8000
      [] movement_type = "Complex Movement" -> 6500
      [] movement_type = "Static" -> 5000
      [] movement_type = "Handheld/Shake" -> 3000

\* C23: confidence, smoothness and cinematic quality of the camera-movement
\* classifier lie in 0..100; a label other than Static and Handheld has the
\* quality of its label plus smoothness / 100 * 25, capped at 100; Static
\* has quality 50 and Handheld quality 30.
C23_MovementScoresBounded ==
    mv_out # <<>> =>
        /\ mv_out.confidence \in 0..10000
        /\ mv_out.smoothness \in 0..10000
        /\ mv_out.cinematic_quality \in 0..10000
        /\ mv_out.cinematic_quality =
               IF mv_out.movement_type \in {"Static", "Handheld/Shake"}
               THEN LabelQuality(mv_out.movement_type)
               ELSE Min(10000, LabelQuality(mv_out.movement_type)
                               + (mv_out.smoothness * 25) \div 100)

\* a Dolly In whose bonus would carry the quality over 100
C23_Witness ==
    /\ mv_out # <<>> /\ mv_in.has_prev
    /\ mv_out.movement_type = "Dolly In"
    /\ mv_out.smoothness > 4000
    /\ mv_out.cinematic_quality = 10000

\* no rule of the cascade matches what was measured on the pair judged
NoRuleMatches ==
    LET t == _track_features(mv_in.track)
        flow == mv_in.flow
    IN  /\ ~(2 * flow.std_mag > 3 * flow.mean_mag /\ flow.mean_mag > 30)
        /\ Abs(t.rotation_angle) <= 80
        /\ Abs(t.scale_factor - 100) <= 1 /\ Abs(flow.median_radial) <= 15
        /\ Abs(t.translation_x) <= 80
        /\ Abs(t.translation_y) <= 80
        /\ flow.mean_mag <= 30

\* C24: without a previous frame the camera-movement classifier returns
\* Static with confidence 0, cinematic quality 50 and smoothness 100; with a
\* previous frame and no rule of the cascade matching, Static with
\* confidence 100.
C24_StaticResults ==
    mv_out # <<>> =>
        /\ ~mv_in.has_prev =>
               /\ mv_out.movement_type = "Static"
               /\ mv_out.confidence = 0
               /\ mv_out.cinematic_quality = 5000
               /\ mv_out.smoothness = 10000
        /\ (mv_in.has_prev /\ NoRuleMatches) =>
               /\ mv_out.movement_type = "Static"
               /\ mv_out.confidence = 10000

\* a slow, even flow between two frames: Static with confidence 100, but
\* not the sentinel
C24_Witness ==
    /\ mv_out # <<>> /\ mv_in.has_prev /\ NoRuleMatches
    /\ mv_in.flow.mean_mag = 20 /\ mv_in.flow.std_mag = 30
    /\ mv_out.movement_type = "Static" /\ mv_out.confidence = 10000
    /\ mv_out.smoothness < 10000

\* segment_duration in the ticks of the video that segment seg was cut from
DurationInTicks(seg) == ix_videos[seg.video_file].fps * ix_duration

\* C25: the segments index_video emits for one video do not overlap one
\* another under overlaps_with, and each has end_time - start_time =
\* duration = segment_duration, for every positive segment duration.
C25_SegmentsDisjoint ==
    ix_duration > 0 =>
        /\ \A j \in DOMAIN ix_segments : \A k \in DOMAIN ix_segments :
               j # k => ~overlaps_with(ix_segments[j], ix_segments[k])
        /\ \A k \in DOMAIN ix_segments :
               /\ ix_segments[k].end_time - ix_segments[k].start_time
                      = ix_segments[k].duration
               /\ ix_segments[k].duration = DurationInTicks(ix_segments[k])

\* the segments of a video whose fps * segment_duration is a whole number of
\* frames do not overlap
WholeWindowsDisjoint ==
    \A j \in DOMAIN ix_segments : \A k \in DOMAIN ix_segments :
        (/\ j # k
         /\ DurationInTicks(ix_segments[j]) % 10000 = 0
         /\ ix_duration > 0)
        => ~overlaps_with(ix_segments[j], ix_segments[k])

\* ceil(n / k)
Ceil(n, k) == (n + k - 1) \div k

\* the cinematic fields of ScoreMetrics (data_models.py lines 32-67)
CinematicFields ==
    {"camera_movement_type", "camera_movement_quality", "camera_movement_smoothness",
     "camera_movement_confidence", "stabilization_type", "stabilization_score",
     "focus_has_change", "focus_change_amount", "focus_sharpness", "focus_has_bokeh",
     "lighting_type", "lighting_quality", "lighting_is_dramatic",
     "color_grading_style", "color_grading_strength", "color_saturation", "color_warmth",
     "exposure_quality", "exposure_score", "exposure_is_well_exposed",
     "shot_framing_type", "shot_composition_score", "shot_follows_rule_of_thirds"}

\* C26: of a segment of n frames process_segment takes ceil(n/3) scalar
\* samples, ceil(n/6) person samples, max(0, ceil(n/3) - 1) motion samples
\* and max(0, ceil(n/6) - 1) cinematic samples; for n <= 6 every cinematic
\* field of the result keeps its ScoreMetrics default, whatever the frames.
C26_SampleCounts ==
    pc = "done" =>
        /\ \A k \in {1, 2, 3, 4, 6} : Len(score_lists[k]) = Ceil(n_frames, 3)
        /\ Len(person_scores) = Ceil(n_frames, 6)
        /\ Len(center_focus_scores) = Ceil(n_frames, 6)
        /\ Len(motion_scores) = Max(0, Ceil(n_frames, 3) - 1)
        /\ \A k \in 1..7 : Len(cinematic_lists[k]) = Max(0, Ceil(n_frames, 6) - 1)
        /\ \A k \in DOMAIN calls : calls[k].frame = 0 => calls[k].cinematic = {0}
        /\ n_frames <= 6 =>
               /\ \A f \in CinematicFields : metrics[f] = ScoreMetrics[f]
               /\ metrics.exposure_is_well_exposed = TRUE
               /\ metrics.exposure_quality = "properly_exposed"

\* a segment of six frames whose last frame read is overexposed has been
\* aggregated
C26_Witness ==
    /\ pc = "done" /\ n_frames = 6
    /\ prev_frame.idx = 3
    /\ ~ExposureMetric_calculate(prev_frame.image).is_well_exposed
    /\ metrics.exposure_is_well_exposed

\* C28: the colour-grading classifier never returns monochrome as the
\* dominant profile: whenever the monochrome predicate fires, desaturated
\* has fired before it with a confidence at least as high.
C28_NeverMonochrome ==
    cl_out # <<>> =>
        LET scores == GradingConfidence(cl_frame) IN
        /\ cl_out[1].grading.dominant_profile # "monochrome"
        /\ \A k \in DOMAIN scores :
               scores[k][1] = "monochrome" =>
                   \E j \in 1..(k - 1) :
                       /\ scores[j][1] = "desaturated"
                       /\ scores[j][2] >= scores[k][2]

\* a frame without any saturation: monochrome and desaturated both at 100,
\* desaturated returned
C28_Witness ==
    /\ cl_out # <<>>
    /\ cl_frame.s_mean = 0
    /\ \E k \in DOMAIN GradingConfidence(cl_frame) :
           GradingConfidence(cl_frame)[k] = <<"monochrome", 10000>>
    /\ cl_out[1].grading.dominant_profile = "desaturated"
    /\ cl_out[1].grading.grading_strength = 100

\* a frame the exposure classifier finds well exposed is of the class
\* properly_exposed
WellExposedIsProperlyExposed ==
    (cl_out # <<>> /\ cl_out[1].exposure.is_well_exposed) =>
        cl_out[1].exposure.exposure_class = "properly_exposed"

\* C30: for a segment with at least one exposure sample, if
\* exposure_is_well_exposed is true then exposure_quality is
\* properly_exposed.
C30_WellExposedIsProper ==
    (pc = "done" /\ exposure_data # <<>>) =>
        /\ \A k \in DOMAIN exposure_data :
               exposure_data[k].is_well_exposed =>
                   exposure_data[k].exposure_class = "properly_exposed"
        /\ metrics.exposure_is_well_exposed =>
               metrics.exposure_quality = "properly_exposed"

\* three well exposed samples have been aggregated
C30_Witness ==
    /\ pc = "done" /\ Len(exposure_data) = 3
    /\ \A k \in DOMAIN exposure_data : exposure_data[k].is_well_exposed
    /\ metrics.exposure_is_well_exposed
    /\ metrics.exposure_quality = "properly_exposed"

\* the index written by the run
IndexFile == ix_file[1]

\* C29: in the index written by index_folder, total_segments is the number
\* of entries of segments and the sum of segment_count over the video
\* entries, total_videos the number of files found, indexed_videos the
\* number of entries with indexed true, and no segment belongs to a video
\* recorded with indexed false.
C29_IndexCountsAgree ==
    ix_file # <<>> =>
        /\ IndexFile.total_segments = Len(IndexFile.segments)
        /\ IndexFile.total_segments =
               SeqSum([k \in DOMAIN IndexFile.videos |-> IndexFile.videos[k].segment_count])
        /\ IndexFile.total_videos = Len(ix_videos)
        /\ Len(IndexFile.videos) = Len(ix_videos)
        /\ IndexFile.indexed_videos =
               Cardinality({k \in DOMAIN IndexFile.videos : IndexFile.videos[k].indexed})
        /\ \A k \in DOMAIN IndexFile.segments :
               IndexFile.videos[IndexFile.segments[k].video_file].indexed
        /\ \A v \in DOMAIN IndexFile.videos :
               IndexFile.videos[v].segment_count =
                   Cardinality({k \in DOMAIN IndexFile.segments :
                                   IndexFile.segments[k].video_file = v})

\* an index of three videos, the second of which failed, the others giving
\* segments
C29_Witness ==
    /\ ix_file # <<>> /\ ix_pc = "saved"
    /\ Len(ix_videos) = 3
    /\ ~IndexFile.videos[2].indexed
    /\ IndexFile.videos[1].segment_count > 0
    /\ IndexFile.videos[3].segment_count > 0
    /\ IndexFile.indexed_videos = 2

====
